---- MODULE Spec2Model ----
(***************************************************************************)
(* Model of the vulcan-ci worker orchestrator: the fragment scheduler      *)
(* (/work/request), the result handler (/work/result) with its chain       *)
(* rollup, the heartbeat handler and the liveness monitor, all acting on   *)
(* one shared store.  Every repository operation is one SQL statement and  *)
(* therefore one atomic step; a handler is a sequence of such steps that   *)
(* interleaves freely with the steps of the other handlers and of the      *)
(* monitor (no handler opens a transaction).                               *)
(*                                                                         *)
(* Time is kept as the age in seconds of each worker's last heartbeat:     *)
(* `last_heartbeat_at < now - timeout` is `age > heartbeat_timeout_secs`.  *)
(* The clock advances in steps longer than the timeout, and an age stops   *)
(* growing once it is past the timeout.                                    *)
(***************************************************************************)
EXTENDS Integers, Sequences, FiniteSets, TLC

None == "none"

\* Option<i32>: no value, or the value x
NoCode == <<>>
SomeCode(x) == <<x>>

Workers == {"w1", "w2"}
FragIds == {"f1", "f2"}
ChainIds == {"c1", "c2"}

\* Config::max_retry_attempts (as configured here) and
\* Config::heartbeat_timeout_secs (the default)
max_retry_attempts == 2
heartbeat_timeout_secs == 30
TickSecs == heartbeat_timeout_secs + 1

\* The number of /work/request and /work/result calls one run explores.
MaxCalls == 4

VARIABLES
    fragments,  \* the fragments table: id -> row
    workers,    \* the workers table: id -> row
    chains,     \* the chains table: id -> row
    h,          \* per worker: the orchestrator handler serving its request
    mon,        \* the liveness monitor task
    alive,      \* per worker: the worker process still sends requests
    handed,     \* per worker: fragments received and not yet reported
    returned,   \* history: every work payload a /work/request call returned
    calls,      \* the number of /work/request and /work/result calls so far
    owed,       \* history, per worker: the fragments its /work/request call is owed
    ctl,        \* the worker controller: its configuration, ScalerState and position
    deploy,     \* the worker deployment the controller scales
    wp,         \* the worker process: its work loop and what became of its work
    cmp         \* the compiler: the request it was given and what it returned

vars == <<fragments, workers, chains, h, mon, alive, handed, returned, calls, owed, ctl, deploy, wp, cmp>>

----------------------------------------------------------------------------
(* models/fragment.rs, models/worker.rs *)

is_terminal(status) == status \in {"Completed", "Failed"}

is_success(status) == status = "Completed"

\* A stored fragment row as the scheduler expects to find it.  The compiler
\* gives the type Group to the parallel containers and to nothing else.
FragmentRow(chain, parent, seq, machine, par) ==
    [chain_id |-> chain, parent_fragment_id |-> parent, sequence |-> seq,
     fragment_type |-> IF par THEN "Group" ELSE "Inline",
     run_script |-> IF par THEN None ELSE "make", condition |-> None,
     machine |-> machine, is_parallel |-> par,
     status |-> "Pending", attempt |-> 1, assigned_worker_id |-> None,
     started_at |-> FALSE, completed_at |-> FALSE,
     exit_code |-> NoCode, error_message |-> None]

\* Chain c1 with two root-level fragments in sequence; chain c2 stays empty.
StoreSequential ==
    [f \in FragIds |->
        IF f = "f1" THEN FragmentRow("c1", None, 0, "a", FALSE)
                    ELSE FragmentRow("c1", None, 1, "a", FALSE)]

\* Two chains of one root-level fragment each.
StoreTwoChains ==
    [f \in FragIds |->
        IF f = "f1" THEN FragmentRow("c1", None, 0, "a", FALSE)
                    ELSE FragmentRow("c2", None, 0, "a", FALSE)]

Stores == {StoreSequential, StoreTwoChains}

\* NewWorker::new(..).with_heartbeat(now), optionally with_machine_group
NewWorker(group) ==
    [status |-> "Active", machine_group |-> group,
     last_heartbeat_age |-> 0, current_fragment_id |-> None]

WorkerGroup(w) == IF w = "w1" THEN None ELSE "a"

----------------------------------------------------------------------------
(* repositories/fragment.rs *)

find_by_chain(frs, chain) == {f \in DOMAIN frs : frs[f].chain_id = chain}

find_siblings(frs, chain, parent) ==
    {f \in DOMAIN frs : frs[f].chain_id = chain /\ frs[f].parent_fragment_id = parent}

\* A listing that leaves the machine filter out.
PendingSet_any_machine(frs, machine) ==
    {f \in DOMAIN frs : frs[f].status = "Pending"}

PendingSet(frs, machine) ==
    {f \in DOMAIN frs : /\ frs[f].status = "Pending"
                     /\ (machine # None => frs[f].machine = machine)}

\* All the orders `ORDER BY sequence ASC` may give the matching rows.
find_pending_by_machine(frs, machine) ==
    LET S == PendingSet(frs, machine)
    IN  {q \in [1..Cardinality(S) -> S] :
            /\ \A i, j \in DOMAIN q : i # j => q[i] # q[j]
            /\ \A i, j \in DOMAIN q : i < j => frs[q[i]].sequence <= frs[q[j]].sequence}

\* The conditional update: WHERE id = f AND status = 'pending'
try_claim_matches(frs, f) == frs[f].status = "Pending"

try_claim(frs, f, w) ==
    IF try_claim_matches(frs, f)
    THEN [frs EXCEPT ![f].status = "Running",
                     ![f].assigned_worker_id = w,
                     ![f].started_at = TRUE]
    ELSE frs

complete_status(exit_code) == IF exit_code = 0 THEN "Completed" ELSE "Failed"

complete_execution(frs, f, exit_code) ==
    [frs EXCEPT ![f].status = complete_status(exit_code),
                ![f].completed_at = TRUE,
                ![f].exit_code = SomeCode(exit_code)]

fail_execution(frs, f, error) ==
    [frs EXCEPT ![f].status = "Failed",
                ![f].completed_at = TRUE,
                ![f].error_message = error]

\* A reset that leaves the assigned worker in place.
reset_for_retry_keeping_worker(frs, f) ==
    [frs EXCEPT ![f].status = "Pending",
                ![f].started_at = FALSE,
                ![f].completed_at = FALSE,
                ![f].exit_code = NoCode,
                ![f].error_message = None,
                ![f].attempt = @ + 1]

reset_for_retry(frs, f) ==
    [frs EXCEPT ![f].status = "Pending",
                ![f].assigned_worker_id = None,
                ![f].started_at = FALSE,
                ![f].completed_at = FALSE,
                ![f].exit_code = NoCode,
                ![f].error_message = None,
                ![f].attempt = @ + 1]

----------------------------------------------------------------------------
(* repositories/worker.rs *)

update(ws, w, row) == [ws EXCEPT ![w] = row]

find_dead_workers(ws) ==
    {w \in DOMAIN ws : /\ ws[w].status = "Active"
                     /\ ws[w].last_heartbeat_age > heartbeat_timeout_secs}

update_heartbeat(ws, w) == [ws EXCEPT ![w].last_heartbeat_age = 0]

assign_fragment(ws, w, f) == [ws EXCEPT ![w].current_fragment_id = f]

clear_assignment(ws, w) == [ws EXCEPT ![w].current_fragment_id = None]

----------------------------------------------------------------------------
(* repositories/chain.rs *)

\* No handler, scheduler or monitor statement calls this operation.
mark_started(cs, c) == [cs EXCEPT ![c].status = "Running", ![c].started_at = TRUE]

mark_completed(cs, c) == [cs EXCEPT ![c].status = "Completed", ![c].completed_at = TRUE]

mark_failed(cs, c) == [cs EXCEPT ![c].status = "Failed", ![c].completed_at = TRUE]

----------------------------------------------------------------------------
(* orchestrator/scheduler.rs *)

can_execute_with_siblings(frs, f, siblings, is_parallel) ==
    IF is_parallel
    THEN TRUE
    ELSE \A s \in siblings :
            ~(frs[s].sequence < frs[f].sequence /\ ~is_terminal(frs[s].status))

\* parent.map(|p| p.is_parallel).unwrap_or(false)
parent_is_parallel(frs, f) ==
    IF frs[f].parent_fragment_id # None
    THEN frs[frs[f].parent_fragment_id].is_parallel
    ELSE FALSE

\* A scheduler that returns the candidate although the claim found it taken.
claim_result_ignoring_loss(claimed, f) == f

\* What the match on try_claim's result hands back for candidate f.
claim_result(claimed, f) == IF claimed THEN f ELSE None

----------------------------------------------------------------------------
\* The candidates of list q that pass the eligibility test on the rows frs.
EligibleIn(frs, q) ==
    {f \in {q[i] : i \in DOMAIN q} :
        can_execute_with_siblings(frs, f,
            find_siblings(frs, frs[f].chain_id, frs[f].parent_fragment_id),
            parent_is_parallel(frs, f))}

\* A fragment id that no row of the store has.
UnknownFragment == "f0"

\* StatusCode::NOT_FOUND and StatusCode::INTERNAL_SERVER_ERROR
NOT_FOUND == 404
INTERNAL_SERVER_ERROR == 500

\* OrchestratorError::into_response: the status of the answer to a failed request
into_response(error) ==
    IF error \in {"Database", "Pool"} THEN INTERNAL_SERVER_ERROR ELSE NOT_FOUND

\* `response` is the status of the error answer the handler last gave, <<>>
\* while it has given none.
IdleHandler ==
    [pc |-> "idle", pending |-> <<>>, fragment |-> None, attempt |-> 0,
     success |-> FALSE, any_failed |-> FALSE, response |-> <<>>]

\* The monitor holds no worker row.
NoRow ==
    [status |-> None, machine_group |-> None,
     last_heartbeat_age |-> 0, current_fragment_id |-> None]

IdleMonitor == [pc |-> "idle", dead |-> <<>>, worker |-> None, row |-> NoRow]

\* Option<Instant>: no instant, or the instant that lies `age` seconds back
NoInstant == <<>>
SomeInstant(age) == <<age>>

\* f64 values: a ratio of two integers, NaN, or +infinity
Ratio(n, d) == [kind |-> "finite", num |-> n, den |-> d]
NaN == [kind |-> "nan", num |-> 0, den |-> 1]
Infinity == [kind |-> "inf", num |-> 1, den |-> 1]

\* ScalingConfig::default()
DefaultScaling ==
    [min_replicas |-> 0, max_replicas |-> 10, target_pending_per_worker |-> Ratio(1, 1)]

\* reconcile returned Ok(()), or has not returned yet
NoError == "none"

\* No controller runs.
NoController ==
    [pc |-> "absent", config |-> DefaultScaling,
     last_scale_down |-> NoInstant, current_replicas |-> 0,
     metrics |-> <<>>, read |-> 0, desired |-> 0, new_replicas |-> 0,
     permit |-> FALSE, signalled |-> FALSE, delay |-> 0, action |-> <<>>,
     error |-> NoError]

NoDeployment == [replicas |-> 0, down_age |-> NoInstant]

\* No compile request has been made.
NoCompiler == [pc |-> "absent"]

\* worker.rs: INITIAL_BACKOFF_SECS and MAX_BACKOFF_SECS
INITIAL_BACKOFF_SECS == 1
MAX_BACKOFF_SECS == 60

\* No worker process runs.
NoWorkerProcess ==
    [pc |-> "absent", fragment |-> None, output |-> None,
     backoff |-> INITIAL_BACKOFF_SECS, sleep |-> 0,
     woken |-> FALSE, signalled |-> FALSE,
     unreported |-> {}, abandoned |-> {},
     hb |-> "absent", hb_backoff |-> INITIAL_BACKOFF_SECS, hb_woken |-> FALSE]

Init ==
    /\ fragments \in Stores
    /\ workers = [w \in Workers |-> NewWorker(WorkerGroup(w))]
    /\ chains = [c \in ChainIds |-> [status |-> "Active", started_at |-> FALSE, completed_at |-> FALSE]]
    /\ h = [w \in Workers |-> IdleHandler]
    /\ mon = IdleMonitor
    /\ alive = [w \in Workers |-> TRUE]
    /\ handed = [w \in Workers |-> {}]
    /\ returned = {}
    /\ calls = 0
    /\ owed = [w \in Workers |-> {}]
    /\ ctl = NoController
    /\ deploy = NoDeployment
    /\ wp = NoWorkerProcess
    /\ cmp = NoCompiler

----------------------------------------------------------------------------
(* POST /work/request: api/handlers.rs request_work, with                  *)
(* Scheduler::find_and_claim_work inlined statement by statement.          *)

\* find_by_id(worker) and find_pending_by_machine(worker.machine_group)
RequestWork(w) ==
    /\ alive[w]
    /\ h[w].pc = "idle"
    /\ calls < MaxCalls
    /\ calls' = calls + 1
    /\ \E q \in find_pending_by_machine(fragments, workers[w].machine_group) :
          /\ h' = [h EXCEPT ![w] = [IdleHandler EXCEPT !.pc = "rw_check", !.pending = q]]
          /\ owed' = [owed EXCEPT ![w] = EligibleIn(fragments, q)]
    /\ UNCHANGED <<fragments, workers, chains, mon, alive, handed, returned, ctl, deploy, wp, cmp>>

\* Loop head: next candidate, find_siblings, find_by_id(parent), eligibility.
\* An exhausted list answers 204.
RwCheck(w) ==
    /\ h[w].pc = "rw_check"
    /\ IF h[w].pending = <<>>
       THEN h' = [h EXCEPT ![w] = IdleHandler]
       ELSE LET f == Head(h[w].pending)
                siblings == find_siblings(fragments, fragments[f].chain_id,
                                          fragments[f].parent_fragment_id)
            IN  IF can_execute_with_siblings(fragments, f, siblings,
                                             parent_is_parallel(fragments, f))
                THEN h' = [h EXCEPT ![w].pc = "rw_claim", ![w].fragment = f,
                                    ![w].pending = Tail(@)]
                ELSE h' = [h EXCEPT ![w].pending = Tail(@)]
    /\ owed' = IF h[w].pending = <<>> THEN [owed EXCEPT ![w] = {}] ELSE owed
    /\ UNCHANGED <<fragments, workers, chains, mon, alive, handed, returned, calls, ctl, deploy, wp, cmp>>

\* repo.try_claim(fragment.id, worker.id) and the match on its result
RwClaim(w) ==
    /\ h[w].pc = "rw_claim"
    /\ LET f == h[w].fragment
           got == claim_result(try_claim_matches(fragments, f), f)
       IN  /\ fragments' = try_claim(fragments, f, w)
           /\ IF got # None
              THEN h' = [h EXCEPT ![w].pc = "rw_assign", ![w].fragment = got,
                                  ![w].attempt = fragments'[got].attempt,
                                  ![w].pending = <<>>]
              ELSE h' = [h EXCEPT ![w].pc = "rw_check", ![w].fragment = None]
           /\ owed' = [v \in DOMAIN owed |->
                          IF v # w /\ got # None THEN owed[v] \ {f} ELSE owed[v]]
    /\ UNCHANGED <<workers, chains, mon, alive, handed, returned, calls, ctl, deploy, wp, cmp>>

\* worker_repo.assign_fragment(worker_id, fragment_id), then the 200 answer
RwAssign(w) ==
    /\ h[w].pc = "rw_assign"
    /\ workers' = assign_fragment(workers, w, h[w].fragment)
    /\ LET payload == [worker |-> w, fragment |-> h[w].fragment, attempt |-> h[w].attempt]
       IN  /\ returned' = returned \cup {payload}
           /\ handed' = IF alive[w]
                        THEN [handed EXCEPT ![w] = @ \cup {h[w].fragment}]
                        ELSE handed
    /\ h' = [h EXCEPT ![w] = IdleHandler]
    /\ owed' = [owed EXCEPT ![w] = {}]
    /\ UNCHANGED <<fragments, chains, mon, alive, calls, ctl, deploy, wp, cmp>>

----------------------------------------------------------------------------
(* POST /work/result: api/handlers.rs report_result and                    *)
(* check_chain_completion.  A worker reports a fragment it was handed,     *)
(* possibly late.                                                          *)

\* The request arrives; find_by_id(worker) finds the worker.
ReportResult(w) ==
    /\ alive[w]
    /\ h[w].pc = "idle"
    /\ calls < MaxCalls
    /\ calls' = calls + 1
    /\ \E f \in handed[w], success \in BOOLEAN :
          /\ h' = [h EXCEPT ![w] = [IdleHandler EXCEPT !.pc = "rr_update",
                                       !.fragment = f, !.success = success]]
          /\ handed' = [handed EXCEPT ![w] = @ \ {f}]
    /\ UNCHANGED <<fragments, workers, chains, mon, alive, returned, owed, ctl, deploy, wp, cmp>>

\* The request names a fragment id that no row has; find_by_id(worker)
\* finds the worker.
ReportUnknownFragment(w) ==
    /\ alive[w]
    /\ h[w].pc = "idle"
    /\ calls < MaxCalls
    /\ calls' = calls + 1
    /\ \E success \in BOOLEAN :
          h' = [h EXCEPT ![w] = [IdleHandler EXCEPT !.pc = "rr_update",
                                    !.fragment = UnknownFragment, !.success = success]]
    /\ UNCHANGED <<fragments, workers, chains, mon, alive, handed, returned, owed, ctl, deploy, wp, cmp>>

\* complete_execution(fragment_id, exit_code) or fail_execution(fragment_id, error).
\* The UPDATE of a row that does not exist returns no row: get_result fails,
\* `?` turns the RepositoryError into OrchestratorError::Database and the
\* handler answers with it.
RrUpdate(w) ==
    /\ h[w].pc = "rr_update"
    /\ IF h[w].fragment \in DOMAIN fragments
       THEN /\ fragments' = IF h[w].success
                            THEN complete_execution(fragments, h[w].fragment, 0)
                            ELSE fail_execution(fragments, h[w].fragment, "reported")
            /\ h' = [h EXCEPT ![w].pc = "rr_clear"]
       ELSE /\ fragments' = fragments
            /\ h' = [h EXCEPT ![w].pc = "idle",
                              ![w].response = <<into_response("Database")>>]
    /\ UNCHANGED <<workers, chains, mon, alive, handed, returned, calls, owed, ctl, deploy, wp, cmp>>

\* clear_assignment(request.worker_id)
RrClear(w) ==
    /\ h[w].pc = "rr_clear"
    /\ workers' = clear_assignment(workers, w)
    /\ h' = [h EXCEPT ![w].pc = "rr_rollup"]
    /\ UNCHANGED <<fragments, chains, mon, alive, handed, returned, calls, owed, ctl, deploy, wp, cmp>>

all_complete(frs, chain) == \A f \in find_by_chain(frs, chain) : is_terminal(frs[f].status)

any_failed(frs, chain) == \E f \in find_by_chain(frs, chain) : ~is_success(frs[f].status)

\* check_chain_completion: find_by_chain and the two verdicts
RrRollup(w) ==
    /\ h[w].pc = "rr_rollup"
    /\ LET chain == fragments[h[w].fragment].chain_id
       IN  IF all_complete(fragments, chain)
           THEN h' = [h EXCEPT ![w].pc = "rr_mark",
                               ![w].any_failed = any_failed(fragments, chain)]
           ELSE h' = [h EXCEPT ![w] = IdleHandler]
    /\ UNCHANGED <<fragments, workers, chains, mon, alive, handed, returned, calls, owed, ctl, deploy, wp, cmp>>

\* check_chain_completion: mark_failed or mark_completed
RrMark(w) ==
    /\ h[w].pc = "rr_mark"
    /\ LET chain == fragments[h[w].fragment].chain_id
       IN  chains' = IF h[w].any_failed
                     THEN mark_failed(chains, chain)
                     ELSE mark_completed(chains, chain)
    /\ h' = [h EXCEPT ![w] = IdleHandler]
    /\ UNCHANGED <<fragments, workers, mon, alive, handed, returned, calls, owed, ctl, deploy, wp, cmp>>

----------------------------------------------------------------------------
(* POST /workers/heartbeat, the worker process and the passage of time     *)

\* find_by_id(worker), update_heartbeat(worker.id)
Heartbeat(w) ==
    /\ alive[w]
    /\ workers' = update_heartbeat(workers, w)
    /\ UNCHANGED <<fragments, chains, h, mon, alive, handed, returned, calls, owed, ctl, deploy, wp, cmp>>

\* The worker process stops: no further heartbeat, request or report.
Crash(w) ==
    /\ alive[w]
    /\ alive' = [alive EXCEPT ![w] = FALSE]
    /\ handed' = [handed EXCEPT ![w] = {}]
    /\ UNCHANGED <<fragments, workers, chains, h, mon, returned, calls, owed, ctl, deploy, wp, cmp>>

\* More than the heartbeat timeout passes without any heartbeat.
Tick ==
    /\ workers' = [w \in DOMAIN workers |->
                     [workers[w] EXCEPT !.last_heartbeat_age = TickSecs]]
    /\ UNCHANGED <<fragments, chains, h, mon, alive, handed, returned, calls, owed, ctl, deploy, wp, cmp>>

----------------------------------------------------------------------------
(* orchestrator/health.rs check_worker_health *)

\* The rows find_dead_workers loaded, in any order.
DeadRows(ws) ==
    LET D == find_dead_workers(ws)
    IN  {q \in [1..Cardinality(D) -> D] : \A i, j \in DOMAIN q : i # j => q[i] # q[j]}

\* After one dead worker is handled: the next one, or the end of the scan.
MonNext(m) ==
    IF m.dead = <<>> THEN IdleMonitor ELSE [m EXCEPT !.pc = "mon_update"]

\* worker_repo.find_dead_workers(threshold)
MonScan ==
    /\ mon.pc = "idle"
    /\ find_dead_workers(workers) # {}
    /\ \E q \in DeadRows(workers) :
          mon' = [IdleMonitor EXCEPT !.pc = "mon_update",
                                     !.dead = [i \in DOMAIN q |-> [id |-> q[i], row |-> workers[q[i]]]]]
    /\ UNCHANGED <<fragments, workers, chains, h, alive, handed, returned, calls, owed, ctl, deploy, wp, cmp>>

\* worker_repo.update(&worker_to_update) with status Error
MonUpdate ==
    /\ mon.pc = "mon_update"
    /\ LET d == Head(mon.dead)
           rest == [mon EXCEPT !.dead = Tail(@), !.worker = d.id, !.row = d.row]
       IN  /\ workers' = update(workers, d.id, [d.row EXCEPT !.status = "Error"])
           /\ IF d.row.current_fragment_id # None
              THEN mon' = [rest EXCEPT !.pc = "mon_retry"]
              ELSE mon' = MonNext([rest EXCEPT !.worker = None, !.row = NoRow])
    /\ UNCHANGED <<fragments, chains, h, alive, handed, returned, calls, owed, ctl, deploy, wp, cmp>>

\* The message the monitor stores with a fragment it gives up on.
RetriesExhausted == "Worker died and max retry attempts exceeded"

\* A monitor that retries whatever the attempt.
may_retry_always(attempt) == TRUE

\* fragment.attempt < config.max_retry_attempts
may_retry(attempt) == attempt < max_retry_attempts

\* fragment_repo.find_by_id(fragment_id), then reset_for_retry(fragment_id) or
\* fail_execution(fragment_id, ..).  Only this task ever writes `attempt`, so
\* the attempt the lookup loaded is the attempt of the row at the update.
MonRetry ==
    /\ mon.pc = "mon_retry"
    /\ LET f == mon.row.current_fragment_id
       IN  fragments' = IF may_retry(fragments[f].attempt)
                        THEN reset_for_retry(fragments, f)
                        ELSE fail_execution(fragments, f, RetriesExhausted)
    /\ mon' = [mon EXCEPT !.pc = "mon_clear"]
    /\ UNCHANGED <<workers, chains, h, alive, handed, returned, calls, owed, ctl, deploy, wp, cmp>>

\* worker_repo.clear_assignment(worker.id)
MonClear ==
    /\ mon.pc = "mon_clear"
    /\ workers' = clear_assignment(workers, mon.worker)
    /\ mon' = MonNext([mon EXCEPT !.worker = None, !.row = NoRow])
    /\ UNCHANGED <<fragments, chains, h, alive, handed, returned, calls, owed, ctl, deploy, wp, cmp>>

----------------------------------------------------------------------------
Next ==
    \/ \E w \in Workers : RequestWork(w)
    \/ \E w \in Workers : RwCheck(w)
    \/ \E w \in Workers : RwClaim(w)
    \/ \E w \in Workers : RwAssign(w)
    \/ \E w \in Workers : ReportResult(w)
    \/ \E w \in Workers : RrUpdate(w)
    \/ \E w \in Workers : RrClear(w)
    \/ \E w \in Workers : RrRollup(w)
    \/ \E w \in Workers : RrMark(w)
    \/ \E w \in Workers : Heartbeat(w)
    \/ Tick
    \/ MonScan
    \/ MonUpdate
    \/ MonRetry
    \/ MonClear

Spec == Init /\ [][Next]_vars

\* The liveness monitor and a fleet whose workers may stop for good: work
\* requests, heartbeats, crashes, the clock and the monitor.
NextLive ==
    \/ \E w \in Workers : RequestWork(w)
    \/ \E w \in Workers : RwCheck(w)
    \/ \E w \in Workers : RwClaim(w)
    \/ \E w \in Workers : RwAssign(w)
    \/ \E w \in Workers : Heartbeat(w)
    \/ \E w \in Workers : Crash(w)
    \/ Tick
    \/ MonScan
    \/ MonUpdate
    \/ MonRetry
    \/ MonClear

\* The clock advances, the monitor's ticker keeps firing and a scan runs to
\* its end; a request the orchestrator accepted is served to its end.
FairLive ==
    /\ WF_vars(Tick)
    /\ WF_vars(MonScan)
    /\ WF_vars(MonUpdate)
    /\ WF_vars(MonRetry)
    /\ WF_vars(MonClear)
    /\ \A w \in Workers :
          WF_vars(RwCheck(w)) /\ WF_vars(RwClaim(w)) /\ WF_vars(RwAssign(w))

SpecLive == Init /\ [][NextLive]_vars /\ FairLive

\* The whole service with a fleet whose workers may stop for good.
NextFleet ==
    \/ Next
    \/ \E w \in Workers : Crash(w)

SpecFleet == Init /\ [][NextFleet]_vars

----------------------------------------------------------------------------
(* The scheduler alone, on the rows the compiler emits for a chain made of  *)
(* one parallel group with three inline children: the Group row at root     *)
(* level with no machine, the children below it with sequences 0, 1, 2 and  *)
(* the machine of the chain or their own.                                   *)

GroupWorkers == {"w1", "w2", "w3", "w4"}
GroupFragIds == {"g", "k1", "k2", "k3"}
MachineGroups == {None, "a", "b"}

StoreParallel(machine3) ==
    [f \in GroupFragIds |->
        CASE f = "g"  -> FragmentRow("c1", None, 0, None, TRUE)
          [] f = "k1" -> FragmentRow("c1", "g", 0, "a", FALSE)
          [] f = "k2" -> FragmentRow("c1", "g", 1, "a", FALSE)
          [] f = "k3" -> FragmentRow("c1", "g", 2, machine3, FALSE)]

InitGroup ==
    /\ fragments \in {StoreParallel(m) : m \in {"a", "b"}}
    /\ workers \in [GroupWorkers -> {NewWorker(m) : m \in MachineGroups}]
    /\ chains = [c \in ChainIds |-> [status |-> "Active", started_at |-> FALSE, completed_at |-> FALSE]]
    /\ h = [w \in GroupWorkers |-> IdleHandler]
    /\ mon = IdleMonitor
    /\ alive = [w \in GroupWorkers |-> TRUE]
    /\ handed = [w \in GroupWorkers |-> {}]
    /\ returned = {}
    /\ calls = 0
    /\ owed = [w \in GroupWorkers |-> {}]
    /\ ctl = NoController
    /\ deploy = NoDeployment
    /\ wp = NoWorkerProcess
    /\ cmp = NoCompiler

NextGroup ==
    \/ \E w \in GroupWorkers : RequestWork(w)
    \/ \E w \in GroupWorkers : RwCheck(w)
    \/ \E w \in GroupWorkers : RwClaim(w)
    \/ \E w \in GroupWorkers : RwAssign(w)

SpecGroup == InitGroup /\ [][NextGroup]_vars

----------------------------------------------------------------------------
(* The scheduler and the result handler on the rows of the chain            *)
(* install, parallel { test1, test2 }, build: three root-level rows with    *)
(* sequences 0, 1, 2, the middle one the Group row, and the two children    *)
(* below it with sequences 0 and 1.  A run starts on the fresh chain or on  *)
(* the chain with everything but build completed by w1.                     *)

PipelineFragIds == {"install", "tests", "test1", "test2", "build"}

StorePipeline ==
    [f \in PipelineFragIds |->
        CASE f = "install" -> FragmentRow("c1", None, 0, "a", FALSE)
          [] f = "tests"   -> FragmentRow("c1", None, 1, None, TRUE)
          [] f = "test1"   -> FragmentRow("c1", "tests", 0, "a", FALSE)
          [] f = "test2"   -> FragmentRow("c1", "tests", 1, "a", FALSE)
          [] f = "build"   -> FragmentRow("c1", None, 2, "a", FALSE)]

\* The rows after w1 claimed and reported success for every fragment but build.
StorePipelineLate ==
    [f \in PipelineFragIds |->
        IF f = "build" THEN StorePipeline[f]
        ELSE [StorePipeline[f] EXCEPT !.status = "Completed",
                                      !.assigned_worker_id = "w1",
                                      !.started_at = TRUE, !.completed_at = TRUE,
                                      !.exit_code = SomeCode(0)]]

InitPipeline ==
    /\ fragments \in {StorePipeline, StorePipelineLate}
    /\ workers = [w \in Workers |-> NewWorker(WorkerGroup(w))]
    /\ chains = [c \in ChainIds |-> [status |-> "Active", started_at |-> FALSE, completed_at |-> FALSE]]
    /\ h = [w \in Workers |-> IdleHandler]
    /\ mon = IdleMonitor
    /\ alive = [w \in Workers |-> TRUE]
    /\ handed = [w \in Workers |-> {}]
    /\ returned = {}
    /\ calls = 0
    /\ owed = [w \in Workers |-> {}]
    /\ ctl = NoController
    /\ deploy = NoDeployment
    /\ wp = NoWorkerProcess
    /\ cmp = NoCompiler

NextPipeline ==
    \/ \E w \in Workers : RequestWork(w)
    \/ \E w \in Workers : RwCheck(w)
    \/ \E w \in Workers : RwClaim(w)
    \/ \E w \in Workers : RwAssign(w)
    \/ \E w \in Workers : ReportResult(w)
    \/ \E w \in Workers : ReportUnknownFragment(w)
    \/ \E w \in Workers : RrUpdate(w)
    \/ \E w \in Workers : RrClear(w)
    \/ \E w \in Workers : RrRollup(w)
    \/ \E w \in Workers : RrMark(w)

SpecPipeline == InitPipeline /\ [][NextPipeline]_vars

----------------------------------------------------------------------------
(* The same chain, freshly stored, run to its end by worker processes that  *)
(* never stop: each runs work_cycle over and over (worker.rs), asking for   *)
(* work while it holds none and reporting what it was handed.  Every script *)
(* exits 0; a fragment without run_script is reported with exit code 1.     *)
(* Either both workers are in the machine group of the chain's fragments,   *)
(* or w1 is in no group.                                                    *)

InitChainRun ==
    /\ fragments = StorePipeline
    /\ workers \in {[w \in Workers |-> NewWorker("a")],
                     [w \in Workers |-> NewWorker(WorkerGroup(w))]}
    /\ chains = [c \in ChainIds |-> [status |-> "Active", started_at |-> FALSE, completed_at |-> FALSE]]
    /\ h = [w \in Workers |-> IdleHandler]
    /\ mon = IdleMonitor
    /\ alive = [w \in Workers |-> TRUE]
    /\ handed = [w \in Workers |-> {}]
    /\ returned = {}
    /\ calls = 0
    /\ owed = [w \in Workers |-> {}]
    /\ ctl = NoController
    /\ deploy = NoDeployment
    /\ wp = NoWorkerProcess
    /\ cmp = NoCompiler

\* work_cycle: self.client.request_work(worker_id); the request arrives
WorkCycleRequest(w) ==
    /\ h[w].pc = "idle"
    /\ handed[w] = {}
    /\ \E q \in find_pending_by_machine(fragments, workers[w].machine_group) :
          /\ h' = [h EXCEPT ![w] = [IdleHandler EXCEPT !.pc = "rw_check", !.pending = q]]
          /\ owed' = [owed EXCEPT ![w] = EligibleIn(fragments, q)]
    /\ UNCHANGED <<fragments, workers, chains, mon, alive, handed, returned, calls, ctl, deploy, wp, cmp>>

\* work_cycle: the script is executed and exits 0, or the fragment has no
\* run_script and the output is the one with exit code 1; report_result
WorkCycleReport(w) ==
    /\ h[w].pc = "idle"
    /\ \E f \in handed[w] :
          /\ h' = [h EXCEPT ![w] = [IdleHandler EXCEPT !.pc = "rr_update", !.fragment = f,
                                       !.success = (fragments[f].run_script # None)]]
          /\ handed' = [handed EXCEPT ![w] = @ \ {f}]
    /\ UNCHANGED <<fragments, workers, chains, mon, alive, returned, calls, owed, ctl, deploy, wp, cmp>>

NextChainRun ==
    \/ \E w \in Workers : WorkCycleRequest(w)
    \/ \E w \in Workers : RwCheck(w)
    \/ \E w \in Workers : RwClaim(w)
    \/ \E w \in Workers : RwAssign(w)
    \/ \E w \in Workers : WorkCycleReport(w)
    \/ \E w \in Workers : RrUpdate(w)
    \/ \E w \in Workers : RrClear(w)
    \/ \E w \in Workers : RrRollup(w)
    \/ \E w \in Workers : RrMark(w)

\* Every worker process keeps running its loop and the orchestrator serves
\* every request it accepted to its end.
FairChainRun ==
    \A w \in Workers :
        /\ WF_vars(WorkCycleRequest(w)) /\ WF_vars(WorkCycleReport(w))
        /\ WF_vars(RwCheck(w)) /\ WF_vars(RwClaim(w)) /\ WF_vars(RwAssign(w))
        /\ WF_vars(RrUpdate(w)) /\ WF_vars(RrClear(w))
        /\ WF_vars(RrRollup(w)) /\ WF_vars(RrMark(w))

SpecChainRun == InitChainRun /\ [][NextChainRun]_vars /\ FairChainRun

----------------------------------------------------------------------------
(* The worker controller: scaler/algorithm.rs, scaler/state.rs and          *)
(* controller.rs.  Instants are kept as ages in seconds, which every        *)
(* passage of time makes older; an age stops growing once it is past the    *)
(* cooldown by a poll interval.                                             *)

orchVars == <<fragments, workers, chains, h, mon, alive, handed, returned, calls, owed>>

\* The orchestrator with an untouched store and no request in progress.
OrchestratorAtRest ==
    /\ fragments = StoreSequential
    /\ workers = [w \in Workers |-> NewWorker(WorkerGroup(w))]
    /\ chains = [c \in ChainIds |-> [status |-> "Active", started_at |-> FALSE, completed_at |-> FALSE]]
    /\ h = [w \in Workers |-> IdleHandler]
    /\ mon = IdleMonitor
    /\ alive = [w \in Workers |-> TRUE]
    /\ handed = [w \in Workers |-> {}]
    /\ returned = {}
    /\ calls = 0
    /\ owed = [w \in Workers |-> {}]

\* ScalingConfig::default(): scale_down_delay_seconds and poll_interval_seconds
scale_down_delay_seconds == 300
poll_interval_seconds == 30

\* The time one request to the cluster takes.
AwaitSecs == 10

AgeCap == scale_down_delay_seconds + poll_interval_seconds

I32Max == 2147483647
I32Min == -2147483647 - 1

\* The configurations and queue lengths explored.
MinChoices == {0, 1, 3}
MaxChoices == {2, 3}
Targets ==
    {Ratio(1, 1), Ratio(2, 1), Ratio(5, 2), Ratio(1, 4), Ratio(0, 1), Ratio(-1, 1),
     NaN, Infinity}
ScalingConfigs ==
    {[min_replicas |-> a, max_replicas |-> b, target_pending_per_worker |-> t] :
        a \in MinChoices, b \in MaxChoices, t \in Targets}
PendingCounts == {-1, 0, 1, 2, 3, 5, 7, 1073741824}
MaxReplicas == 3

\* x <= 0.0 on f64: false for NaN
le_zero(x) == x.kind = "finite" /\ x.num <= 0

\* ceil(n / d) for d > 0
CeilDiv(n, d) == -((-n) \div d)

\* (p as f64 / t).ceil() as i32 for t > 0 or NaN: the cast saturates and
\* takes NaN to 0; a finite p over infinity is 0.
ceil_as_i32(p, t) ==
    IF t.kind = "nan" THEN 0
    ELSE IF t.kind = "inf" THEN 0
    ELSE LET q == IF p >= 0 THEN p ELSE -p
             a == q \div t.num
             b == q % t.num
         IN  IF a > (I32Max - t.den) \div t.den
             THEN (IF p >= 0 THEN I32Max ELSE I32Min)
             ELSE IF p >= 0
                  THEN a * t.den + CeilDiv(b * t.den, t.num)
                  ELSE -(a * t.den + ((b * t.den) \div t.num))

Returned(v) == [panic |-> FALSE, value |-> v]
Panicked == [panic |-> TRUE, value |-> 0]

\* i32::clamp: `assert!(min <= max)`, then the nearest value of the range
clamp(x, lo, hi) ==
    IF lo > hi THEN Panicked
    ELSE Returned(IF x < lo THEN lo ELSE IF x > hi THEN hi ELSE x)

calculate_desired_replicas(config, pending_fragments) ==
    IF le_zero(config.target_pending_per_worker)
    THEN Returned(config.min_replicas)
    ELSE clamp(ceil_as_i32(pending_fragments, config.target_pending_per_worker),
               config.min_replicas, config.max_replicas)

\* elapsed >= Duration::from_secs(cooldown_seconds as u64): the cast takes a
\* negative i64 to 2^64 + cooldown_seconds, more seconds than any Instant
\* has elapsed
elapsed_at_least(elapsed, cooldown_seconds) ==
    IF cooldown_seconds < 0 THEN FALSE ELSE elapsed >= cooldown_seconds

\* A cooldown check that always lets the scale-down through.
can_scale_down_always(state, cooldown_seconds) == TRUE

can_scale_down(state, cooldown_seconds) ==
    IF state.last_scale_down = NoInstant
    THEN TRUE
    ELSE elapsed_at_least(state.last_scale_down[1], cooldown_seconds)

record_scale_down(state) == [state EXCEPT !.last_scale_down = SomeInstant(0)]

set_current_replicas(state, replicas) == [state EXCEPT !.current_replicas = replicas]

\* Option<i32>: <<>> for no action, <<n>> for a change to n replicas
should_scale(state, desired_replicas, scale_down_delay) ==
    IF desired_replicas = state.current_replicas THEN <<>>
    ELSE IF desired_replicas > state.current_replicas THEN <<desired_replicas>>
    ELSE IF can_scale_down(state, scale_down_delay) THEN <<desired_replicas>>
    ELSE <<>>

Older(instant, secs) ==
    IF instant = NoInstant
    THEN NoInstant
    ELSE SomeInstant(IF instant[1] + secs > AgeCap THEN AgeCap ELSE instant[1] + secs)

\* A tick whose failure ends the controller.
tick_failed_fatal(state, what) == [state EXCEPT !.pc = "stopped", !.error = what]

\* A request of reconcile fails and `?` returns the error; run logs it
\* ("Reconciliation failed") and goes on to the select!.
tick_failed(state, what) == [state EXCEPT !.pc = "sleep", !.error = what]

InitController ==
    /\ OrchestratorAtRest
    /\ ctl \in {[NoController EXCEPT !.pc = "tick", !.config = c] : c \in ScalingConfigs}
    /\ deploy \in {[NoDeployment EXCEPT !.replicas = r] : r \in 0..MaxReplicas}
    /\ wp = NoWorkerProcess
    /\ cmp = NoCompiler

\* Controller::reconcile up to the scaling decision: get_queue_metrics,
\* get_replicas, set_current_replicas, calculate_desired_replicas, should_scale.
\* A failed request ends the tick; a panic ends the process.
CtlReconcile ==
    /\ ctl.pc = "tick"
    /\ \/ \E what \in {"metrics", "replicas"} : ctl' = tick_failed(ctl, what)
       \/ \E pending \in PendingCounts :
             LET current_replicas == deploy.replicas
                 state == [set_current_replicas(ctl, current_replicas)
                              EXCEPT !.metrics = <<pending>>]
                 d == calculate_desired_replicas(ctl.config, pending)
             IN  IF d.panic
                 THEN ctl' = [state EXCEPT !.pc = "panicked"]
                 ELSE LET action == should_scale(state, d.value, scale_down_delay_seconds)
                          seen == [state EXCEPT !.read = current_replicas,
                                                !.desired = d.value]
                      IN  IF action # <<>>
                          THEN ctl' = [seen EXCEPT !.pc = "scale",
                                                   !.new_replicas = action[1]]
                          ELSE ctl' = [seen EXCEPT !.pc = "sleep"]
    /\ UNCHANGED <<deploy, orchVars, wp, cmp>>

\* self.scaler.scale(new_replicas).await?
CtlScale ==
    /\ ctl.pc = "scale"
    /\ \/ /\ deploy' = [replicas |-> ctl.new_replicas,
                        down_age |-> IF ctl.new_replicas < deploy.replicas
                                     THEN SomeInstant(0)
                                     ELSE deploy.down_age]
          /\ ctl' = [ctl EXCEPT !.pc = "record"]
       \/ /\ ctl' = tick_failed(ctl, "scale")
          /\ UNCHANGED deploy
    /\ UNCHANGED <<wp, orchVars, cmp>>

\* record_scale_down if new_replicas < current_replicas; set_current_replicas
CtlRecord ==
    /\ ctl.pc = "record"
    /\ LET state == IF ctl.new_replicas < ctl.read THEN record_scale_down(ctl) ELSE ctl
       IN  ctl' = [set_current_replicas(state, ctl.new_replicas) EXCEPT !.pc = "sleep"]
    /\ UNCHANGED <<deploy, orchVars, wp, cmp>>

\* Time passes while a request to the cluster is under way.
CtlAwait ==
    /\ ctl.pc \in {"scale", "record"}
    /\ ctl' = [ctl EXCEPT !.last_scale_down = Older(@, AwaitSecs)]
    /\ deploy' = [deploy EXCEPT !.down_age = Older(@, AwaitSecs)]
    /\ UNCHANGED <<wp, orchVars, cmp>>

\* A select! whose sleep branch can win although a permit is stored.
CtlSleepThroughShutdown ==
    /\ ctl.pc = "sleep"
    /\ ctl' = [ctl EXCEPT !.pc = "tick", !.metrics = <<>>, !.error = NoError,
                          !.read = 0, !.desired = 0, !.new_replicas = 0,
                          !.last_scale_down = Older(@, poll_interval_seconds)]
    /\ deploy' = [deploy EXCEPT !.down_age = Older(@, poll_interval_seconds)]
    /\ UNCHANGED <<wp, orchVars, cmp>>

\* select!: the sleep of one poll interval ends first
CtlSleep ==
    /\ ctl.pc = "sleep"
    /\ ~ctl.permit
    /\ ctl' = [ctl EXCEPT !.pc = "tick", !.metrics = <<>>, !.error = NoError,
                          !.read = 0, !.desired = 0, !.new_replicas = 0,
                          !.last_scale_down = Older(@, poll_interval_seconds)]
    /\ deploy' = [deploy EXCEPT !.down_age = Older(@, poll_interval_seconds)]
    /\ UNCHANGED <<wp, orchVars, cmp>>

\* select!: shutdown.notified() completes; the loop breaks
CtlStop ==
    /\ ctl.pc = "sleep"
    /\ ctl.permit
    /\ ctl' = [ctl EXCEPT !.pc = "stopped", !.permit = FALSE]
    /\ UNCHANGED <<deploy, orchVars, wp, cmp>>

\* main: Ctrl+C arrives, shutdown.notify_one() stores a permit
CtlSignal ==
    /\ ctl.pc \in {"tick", "scale", "record", "sleep"}
    /\ ~ctl.signalled
    /\ ctl' = [ctl EXCEPT !.signalled = TRUE, !.permit = TRUE]
    /\ UNCHANGED <<deploy, orchVars, wp, cmp>>

NextController ==
    \/ CtlReconcile
    \/ CtlScale
    \/ CtlRecord
    \/ CtlAwait
    \/ CtlSleep
    \/ CtlStop
    \/ CtlSignal

SpecController == InitController /\ [][NextController]_vars

\* The controller with the default target of pending fragments per worker.
InitControllerLive ==
    /\ InitController
    /\ ctl.config.target_pending_per_worker = DefaultScaling.target_pending_per_worker

\* The runtime polls the controller's task while it can make progress: a
\* request to the orchestrator or the cluster returns, and a ready branch
\* of the select! is taken.
SpecControllerLive ==
    /\ InitControllerLive
    /\ [][NextController]_vars
    /\ WF_vars(CtlReconcile)
    /\ WF_vars(CtlScale)
    /\ WF_vars(CtlRecord)
    /\ WF_vars(CtlStop)

----------------------------------------------------------------------------
(* ScalerState on its own: scaler/state.rs.  A caller sets the replica      *)
(* count, records scale-downs, lets time pass and asks should_scale with    *)
(* any desired count and any delay an i64 configuration value can hold.     *)

\* The delays explored: SCALE_DOWN_DELAY_SECONDS parses as any i64.
Delays == {-1, 0, 30, 300}

\* ScalerState::new()
InitScaler ==
    /\ OrchestratorAtRest
    /\ ctl = [NoController EXCEPT !.pc = "scaler"]
    /\ deploy = NoDeployment
    /\ wp = NoWorkerProcess
    /\ cmp = NoCompiler

\* The state without the record of the last should_scale call.
Forgetting(state) ==
    [state EXCEPT !.pc = "scaler", !.desired = 0, !.delay = 0, !.action = <<>>]

ScSetCurrentReplicas ==
    /\ ctl.pc \in {"scaler", "scaled"}
    /\ \E replicas \in 0..MaxReplicas :
          ctl' = set_current_replicas(Forgetting(ctl), replicas)
    /\ UNCHANGED <<deploy, orchVars, wp, cmp>>

ScRecordScaleDown ==
    /\ ctl.pc \in {"scaler", "scaled"}
    /\ ctl' = record_scale_down(Forgetting(ctl))
    /\ UNCHANGED <<deploy, orchVars, wp, cmp>>

\* A poll interval passes.
ScElapse ==
    /\ ctl.pc \in {"scaler", "scaled"}
    /\ ctl.last_scale_down # NoInstant
    /\ ctl' = [Forgetting(ctl) EXCEPT !.last_scale_down = Older(@, poll_interval_seconds)]
    /\ UNCHANGED <<deploy, orchVars, wp, cmp>>

\* should_scale(desired_replicas, scale_down_delay_seconds); the state keeps
\* the arguments and the result until the next operation.
ScShouldScale ==
    /\ ctl.pc \in {"scaler", "scaled"}
    /\ \E desired_replicas \in 0..MaxReplicas, scale_down_delay \in Delays :
          ctl' = [ctl EXCEPT !.pc = "scaled", !.desired = desired_replicas,
                             !.delay = scale_down_delay,
                             !.action = should_scale(ctl, desired_replicas,
                                                     scale_down_delay)]
    /\ UNCHANGED <<deploy, orchVars, wp, cmp>>

NextScaler ==
    \/ ScSetCurrentReplicas
    \/ ScRecordScaleDown
    \/ ScElapse
    \/ ScShouldScale

SpecScaler == InitScaler /\ [][NextScaler]_vars

----------------------------------------------------------------------------
(* The worker process: worker.rs work_loop and work_cycle, with the Ctrl+C  *)
(* handler of main.rs.  The orchestrator is whatever answers the requests.  *)
(* `unreported` holds the fragments whose result exists and has not been    *)
(* posted, `abandoned` those the process held when it left the loop.        *)

\* std::cmp::min(backoff * 2, MAX_BACKOFF_SECS)
next_backoff(backoff) ==
    IF backoff * 2 < MAX_BACKOFF_SECS THEN backoff * 2 ELSE MAX_BACKOFF_SECS

\* work_loop, Err(e): sleep(backoff), then the backoff doubles; the
\* work_cycle future and what it held are gone.
cycle_failed(p) ==
    [p EXCEPT !.pc = "pause", !.fragment = None, !.output = None,
              !.sleep = p.backoff, !.backoff = next_backoff(p.backoff),
              !.woken = FALSE]

InitWorker ==
    /\ OrchestratorAtRest
    /\ ctl = NoController
    /\ deploy = NoDeployment
    /\ wp = [NoWorkerProcess EXCEPT !.pc = "request"]
    /\ cmp = NoCompiler

\* work_cycle: client.request_work(worker_id).await? answers work, with or
\* without a script, or 204, or fails.
WpRequest ==
    /\ wp.pc = "request"
    /\ \/ \E f \in FragIds :
             \/ wp' = [wp EXCEPT !.pc = "execute", !.fragment = f]
             \/ wp' = [wp EXCEPT !.pc = "report", !.fragment = f, !.output = "failure",
                                 !.unreported = @ \cup {f}]
       \/ wp' = [wp EXCEPT !.pc = "pause", !.backoff = INITIAL_BACKOFF_SECS,
                           !.sleep = 0, !.woken = FALSE]
       \/ wp' = cycle_failed(wp)
    /\ UNCHANGED <<ctl, deploy, orchVars, cmp>>

\* work_cycle: self.executor.execute(fragment_id, script).await? ends with the
\* script's exit, with the script timeout, or with an executor error.
WpExecute ==
    /\ wp.pc = "execute"
    /\ \/ \E out \in {"success", "failure", "timeout"} :
             wp' = [wp EXCEPT !.pc = "report", !.output = out,
                              !.unreported = @ \cup {wp.fragment}]
       \/ wp' = cycle_failed(wp)
    /\ UNCHANGED <<ctl, deploy, orchVars, cmp>>

\* work_cycle: client.report_result(..).await? succeeds, and the loop goes
\* round at once, or fails.
WpReport ==
    /\ wp.pc = "report"
    /\ \/ wp' = [wp EXCEPT !.pc = "request", !.fragment = None, !.output = None,
                           !.backoff = INITIAL_BACKOFF_SECS, !.woken = FALSE,
                           !.unreported = @ \ {wp.fragment}]
       \/ wp' = cycle_failed(wp)
    /\ UNCHANGED <<ctl, deploy, orchVars, cmp>>

\* work_loop: the sleep inside the branch ends and the loop goes round.
WpPause ==
    /\ wp.pc = "pause"
    /\ wp' = [wp EXCEPT !.pc = "request", !.sleep = 0]
    /\ UNCHANGED <<ctl, deploy, orchVars, cmp>>

\* main: Ctrl+C arrives, shutdown.notify_waiters() wakes the `notified()` of
\* the select if the loop is waiting in it, and stores nothing.
WpSignal ==
    /\ wp.pc \in {"request", "execute", "report", "pause"}
    /\ ~wp.signalled
    /\ wp' = [wp EXCEPT !.signalled = TRUE,
                        !.woken = wp.pc \in {"request", "execute", "report"},
                        !.hb_woken = wp.hb = "wait"]
    /\ UNCHANGED <<ctl, deploy, orchVars, cmp>>

\* work_loop: the select takes the shutdown branch and drops the work_cycle
\* future wherever it is (a running script is killed on drop).
WpShutdown ==
    /\ wp.pc \in {"request", "execute", "report"}
    /\ wp.woken
    /\ wp' = [wp EXCEPT !.pc = "stopped", !.woken = FALSE,
                        !.abandoned = IF wp.fragment # None
                                      THEN @ \cup {wp.fragment} ELSE @]
    /\ UNCHANGED <<ctl, deploy, orchVars, cmp>>

NextWorker ==
    \/ WpRequest
    \/ WpExecute
    \/ WpReport
    \/ WpPause
    \/ WpSignal
    \/ WpShutdown

SpecWorker == InitWorker /\ [][NextWorker]_vars

----------------------------------------------------------------------------
(* The worker process with its heartbeat task: worker.rs run and            *)
(* spawn_heartbeat_task.  `hb` is where the task is: waiting in its select  *)
(* ("wait"), in the heartbeat request ("beat"), sleeping after a failed     *)
(* one ("backoff"), or gone ("stopped").                                    *)

\* run: the worker is registered, the heartbeat task is spawned and the
\* work loop starts.
InitWorkerShutdown ==
    /\ OrchestratorAtRest
    /\ ctl = NoController
    /\ deploy = NoDeployment
    /\ wp = [NoWorkerProcess EXCEPT !.pc = "request", !.hb = "wait"]
    /\ cmp = NoCompiler

\* select!: sleep(interval) completes first; the `notified()` of this round
\* is dropped with the select.
HbInterval ==
    /\ wp.hb = "wait"
    /\ wp' = [wp EXCEPT !.hb = "beat", !.hb_woken = FALSE]
    /\ UNCHANGED <<ctl, deploy, orchVars, cmp>>

\* client.heartbeat(worker_id).await: Ok resets the backoff and the loop goes
\* round; Err goes to sleep(backoff).
HbBeat ==
    /\ wp.hb = "beat"
    /\ \/ wp' = [wp EXCEPT !.hb = "wait", !.hb_backoff = INITIAL_BACKOFF_SECS]
       \/ wp' = [wp EXCEPT !.hb = "backoff"]
    /\ UNCHANGED <<ctl, deploy, orchVars, cmp>>

\* sleep(backoff).await ends, the backoff doubles and the loop goes round.
HbBackoff ==
    /\ wp.hb = "backoff"
    /\ wp' = [wp EXCEPT !.hb = "wait", !.hb_backoff = next_backoff(wp.hb_backoff)]
    /\ UNCHANGED <<ctl, deploy, orchVars, cmp>>

\* select!: shutdown.notified() completes and the task returns.
HbShutdown ==
    /\ wp.hb = "wait"
    /\ wp.hb_woken
    /\ wp' = [wp EXCEPT !.hb = "stopped", !.hb_woken = FALSE]
    /\ UNCHANGED <<ctl, deploy, orchVars, cmp>>

\* run: the work loop has returned, heartbeat_handle.abort().
HbAbort ==
    /\ wp.pc = "stopped"
    /\ wp.hb \in {"wait", "beat", "backoff"}
    /\ wp' = [wp EXCEPT !.hb = "stopped", !.hb_woken = FALSE]
    /\ UNCHANGED <<ctl, deploy, orchVars, cmp>>

NextWorkerShutdown ==
    \/ WpRequest
    \/ WpExecute
    \/ WpReport
    \/ WpPause
    \/ WpSignal
    \/ WpShutdown
    \/ HbInterval
    \/ HbBeat
    \/ HbBackoff
    \/ HbShutdown
    \/ HbAbort

\* Every step of the two tasks is taken once it stays possible: requests
\* are answered, sleeps end, a woken select is polled.
FairWorkerShutdown ==
    /\ WF_vars(WpRequest) /\ WF_vars(WpExecute) /\ WF_vars(WpReport)
    /\ WF_vars(WpPause) /\ WF_vars(WpShutdown)
    /\ WF_vars(HbInterval) /\ WF_vars(HbBeat) /\ WF_vars(HbBackoff)
    /\ WF_vars(HbShutdown) /\ WF_vars(HbAbort)

SpecWorkerShutdown ==
    InitWorkerShutdown /\ [][NextWorkerShutdown]_vars /\ FairWorkerShutdown

----------------------------------------------------------------------------
(* The compiler: chain-parser parser.rs and service.rs.  A KDL document is  *)
(* kept as what the parser reads from it: the root-level values and the     *)
(* nodes of the chain, each node with its name, the values of its `from`,   *)
(* `run`, `machine` and `condition` children and its child nodes.  The      *)
(* fetcher maps the URLs it can fetch to the nodes of the fragment file.    *)
(* Fresh ids are numbered in the order the fragments are created.           *)

\* Option<Uuid> of a parsed fragment
NoId == <<>>
SomeId(id) == <<id>>

Node(name, from, run, children) ==
    [name |-> name, from |-> from, run |-> run, machine |-> None,
     condition |-> None, children |-> children]

RunNode == Node("fragment", None, "make", <<>>)
ImportNode(url) == Node("fragment", url, None, <<>>)
BothNode == Node("fragment", "u2", "make", <<>>)
EmptyNode == Node("fragment", None, None, <<>>)
OtherNode == Node("job", None, "make", <<>>)
ParallelNode(children) == Node("parallel", None, None, children)

\* A compile result: Err(e), or Ok with the fragments, the visited set and
\* the next fresh id.
Failed(e) == [err |-> e, frags |-> <<>>, visited |-> {}, nid |-> 0]
Parsed(frags, visited, nid) == [err |-> None, frags |-> frags, visited |-> visited, nid |-> nid]

\* ParsedFragment::inline(0, run).with_machine(..), with_condition, with_parent
InlineFragment(id, node, default_machine, parent_id) ==
    [id |-> id, parent_id |-> parent_id, sequence |-> 0, fragment_type |-> "Inline",
     run_script |-> node.run,
     machine |-> IF node.machine # None THEN node.machine ELSE default_machine,
     is_parallel |-> FALSE, condition |-> node.condition, source_url |-> None]

\* ParsedFragment::parallel_group(0), with_parent
GroupFragment(id, parent_id) ==
    [id |-> id, parent_id |-> parent_id, sequence |-> 0, fragment_type |-> "Group",
     run_script |-> None, machine |-> None,
     is_parallel |-> TRUE, condition |-> None, source_url |-> None]

\* A check that never finds both `from` and `run`.
declares_both_never(node) == FALSE

\* from_url.is_some() && run_script.is_some()
declares_both(node) == node.from # None /\ node.run # None

\* from_url.is_none() && run_script.is_none()
declares_neither(node) == node.from = None /\ node.run = None

\* A compilation that starts with nothing visited.
initial_visited_empty(source_url) == {}

\* let mut visited = HashSet::new(); the workflow's own source, if given
initial_visited(source_url) == IF source_url # None THEN {source_url} ELSE {}

\* A marking in which the importer overwrites the source of every fragment.
mark_source_overwriting(frags, url) ==
    [i \in DOMAIN frags |-> [frags[i] EXCEPT !.source_url = url]]

\* frag.source_url.is_none() => Some(source_url), over the fragments of one node
mark_source(frags, url) ==
    [i \in DOMAIN frags |->
        IF frags[i].source_url = None THEN [frags[i] EXCEPT !.source_url = url]
                                      ELSE frags[i]]

\* if let Some(pid) = parent_id: frag.parent_id.is_none() => Some(pid)
adopt(frags, parent_id) ==
    [i \in DOMAIN frags |->
        IF parent_id # NoId /\ frags[i].parent_id = NoId
        THEN [frags[i] EXCEPT !.parent_id = parent_id]
        ELSE frags[i]]

\* A numbering that also renumbers the fragments nested below other parents.
RECURSIVE number_from_nested_too(_, _, _, _)
number_from_nested_too(frags, i, parent_id, next) ==
    IF i > Len(frags) THEN [frags |-> frags, next |-> next]
    ELSE number_from_nested_too([frags EXCEPT ![i].sequence = next], i + 1, parent_id, next + 1)

\* Numbers, from `next` on, the fragments of `frags` whose parent is `parent_id`.
RECURSIVE number_from(_, _, _, _)
number_from(frags, i, parent_id, next) ==
    IF i > Len(frags) THEN [frags |-> frags, next |-> next]
    ELSE IF frags[i].parent_id = parent_id
         THEN number_from([frags EXCEPT ![i].sequence = next], i + 1, parent_id, next + 1)
         ELSE number_from(frags, i + 1, parent_id, next)

RECURSIVE parse_node(_, _, _, _, _, _)
RECURSIVE file_nodes(_, _, _, _, _, _, _, _)
RECURSIVE parallel_children(_, _, _, _, _, _, _, _, _)

\* parse_fragment_file: the loop over the nodes of an imported document
file_nodes(nodes, i, source_url, default_machine, visited, nid, fetcher, acc) ==
    IF i > Len(nodes) THEN Parsed(acc, visited, nid)
    ELSE IF nodes[i].name \notin {"fragment", "parallel"} THEN Failed("InvalidImportNode")
    ELSE LET r == parse_node(nodes[i], default_machine, visited, nid, NoId, fetcher)
         IN  IF r.err # None THEN r
             ELSE file_nodes(nodes, i + 1, source_url, default_machine, r.visited, r.nid,
                             fetcher, acc \o mark_source(r.frags, source_url))

parse_fragment_file(content, source_url, default_machine, visited, nid, fetcher) ==
    file_nodes(content, 1, source_url, default_machine, visited, nid, fetcher, <<>>)

resolve_import(url, default_machine, visited, nid, parent_id, fetcher) ==
    IF url \in visited THEN Failed("CircularImport")
    ELSE IF url \notin DOMAIN fetcher THEN Failed("FetchFailed")
    ELSE LET r == parse_fragment_file(fetcher[url], url, default_machine,
                                      visited \cup {url}, nid, fetcher)
         IN  IF r.err # None THEN r ELSE [r EXCEPT !.frags = adopt(@, parent_id)]

parse_fragment(node, default_machine, visited, nid, parent_id, fetcher) ==
    IF declares_both(node) THEN Failed("MutualExclusion")
    ELSE IF declares_neither(node) THEN Failed("NoContent")
    ELSE IF node.from # None
         THEN resolve_import(node.from, default_machine, visited, nid, parent_id, fetcher)
         ELSE Parsed(<<InlineFragment(nid, node, default_machine, parent_id)>>,
                     visited, nid + 1)

\* parse_parallel: the loop over the children of the group `group_id`
parallel_children(nodes, i, group_id, child_sequence, default_machine, visited, nid, fetcher, acc) ==
    IF i > Len(nodes) THEN Parsed(acc, visited, nid)
    ELSE LET r == parse_node(nodes[i], default_machine, visited, nid,
                             SomeId(group_id), fetcher)
         IN  IF r.err # None THEN r
             ELSE LET n == number_from(r.frags, 1, SomeId(group_id), child_sequence)
                  IN  parallel_children(nodes, i + 1, group_id, n.next, default_machine,
                                        r.visited, r.nid, fetcher, acc \o n.frags)

parse_parallel(node, default_machine, visited, nid, parent_id, fetcher) ==
    parallel_children(node.children, 1, nid, 0, default_machine, visited, nid + 1,
                      fetcher, <<GroupFragment(nid, parent_id)>>)

parse_node(node, default_machine, visited, nid, parent_id, fetcher) ==
    IF node.name = "fragment"
    THEN parse_fragment(node, default_machine, visited, nid, parent_id, fetcher)
    ELSE IF node.name = "parallel"
    THEN parse_parallel(node, default_machine, visited, nid, parent_id, fetcher)
    ELSE Failed("UnknownNode")

\* parse_workflow: the loop over the nodes of the chain
RECURSIVE chain_nodes(_, _, _, _, _, _, _, _)
chain_nodes(nodes, i, sequence, default_machine, visited, nid, fetcher, acc) ==
    IF i > Len(nodes) THEN Parsed(acc, visited, nid)
    ELSE LET r == parse_node(nodes[i], default_machine, visited, nid, NoId, fetcher)
         IN  IF r.err # None THEN r
             ELSE LET n == number_from(r.frags, 1, NoId, sequence)
                  IN  chain_nodes(nodes, i + 1, n.next, default_machine, r.visited, r.nid,
                                  fetcher, acc \o n.frags)

\* get_string_args(..).filter(|args| !args.is_empty())
get_string_args(args) == IF args = <<>> THEN None ELSE args

\* ParsedChain, or the error
parse_workflow(doc, source_url, fetcher) ==
    IF ~doc.syntax_ok THEN Failed("InvalidSyntax")
    ELSE IF doc.version = None THEN Failed("MissingRequired(version)")
    ELSE IF doc.version # "0.1" THEN Failed("UnsupportedVersion")
    ELSE IF get_string_args(doc.triggers) = None THEN Failed("MissingRequired(triggers)")
    ELSE IF ~doc.has_chain THEN Failed("MissingRequired(chain)")
    ELSE IF ~doc.has_children THEN Failed("MissingRequired(chain children)")
    ELSE IF doc.machine = None THEN Failed("MissingRequired(machine)")
    ELSE chain_nodes(doc.nodes, 1, 0, doc.machine, initial_visited(source_url), 1,
                     fetcher, <<>>)

\* TriggerType to the string the document's trigger list is matched against
trigger_type_to_str(trigger) ==
    CASE trigger = "Tag" -> "tag"
      [] trigger = "Push" -> "push"
      [] trigger = "PullRequest" -> "pull_request"
      [] trigger = "Schedule" -> "schedule"
      [] trigger = "Manual" -> "manual"

\* A trigger check that lets every trigger through.
trigger_listed_always(triggers, trigger) == TRUE

\* parsed.triggers.iter().any(|t| t == trigger_str)
trigger_listed(triggers, trigger) == \E i \in DOMAIN triggers : triggers[i] = trigger

\* create_new_chain
NewChainOf(doc, context) ==
    [default_machine |-> doc.machine, source_file_path |-> context.source_file_path,
     trigger |-> context.trigger, status |-> "Active"]

\* convert_fragment: NewFragment::parallel_group or NewFragment::inline, then
\* the fields of the parsed fragment
convert_fragment(parsed) ==
    [id |-> parsed.id, parent_fragment_id |-> parsed.parent_id,
     sequence |-> parsed.sequence, fragment_type |-> parsed.fragment_type,
     run_script |-> parsed.run_script, machine |-> parsed.machine,
     is_parallel |-> parsed.is_parallel, condition |-> parsed.condition,
     source_url |-> parsed.source_url, status |-> "Active", attempt |-> 1]

create_new_fragments(frags) == [i \in DOMAIN frags |-> convert_fragment(frags[i])]

\* Result<ParsedWorkflow>
NoWorkflow(e) == [err |-> e, chain |-> None, fragments |-> <<>>]
Workflow(chain, frags) == [err |-> None, chain |-> chain, fragments |-> frags]

\* ChainParserService::parse
service_parse(doc, context, fetcher) ==
    LET parsed == parse_workflow(doc, context.source_file_path, fetcher)
    IN  IF parsed.err # None THEN NoWorkflow(parsed.err)
        ELSE IF /\ context.trigger # None
                /\ ~trigger_listed(doc.triggers, trigger_type_to_str(context.trigger))
        THEN NoWorkflow("InvalidTrigger")
        ELSE Workflow(NewChainOf(doc, context), create_new_fragments(parsed.frags))

\* ChainParserService::parse_without_trigger_validation
parse_without_trigger_validation(doc, context, fetcher) ==
    LET parsed == parse_workflow(doc, context.source_file_path, fetcher)
    IN  IF parsed.err # None THEN NoWorkflow(parsed.err)
        ELSE Workflow(NewChainOf(doc, context), create_new_fragments(parsed.frags))

\* The documents, fetchers and contexts explored.
Urls == {"u1", "u2"}

SeqsUpTo2(S) == {<<a>> : a \in S} \cup {<<a, b>> : a \in S, b \in S}

Leaves == {RunNode, ImportNode("u1"), ImportNode("u2"), BothNode, EmptyNode, OtherNode}

Groups ==
    {ParallelNode(<<a>>) : a \in Leaves}
        \cup {ParallelNode(<<RunNode, ImportNode("u1")>>),
              ParallelNode(<<ImportNode("u1"), ImportNode("u1")>>),
              ParallelNode(<<ParallelNode(<<RunNode>>), RunNode>>)}

Chains == SeqsUpTo2(Leaves \cup Groups)

Files1 ==
    SeqsUpTo2({RunNode, ImportNode("u1"), ImportNode("u2"), EmptyNode,
               ParallelNode(<<RunNode>>)})

Files2 ==
    {<<RunNode>>, <<ImportNode("u1")>>, <<ImportNode("u2")>>, <<BothNode>>, <<OtherNode>>}

Fetchers ==
    UNION {{[u \in D |-> IF u = "u1" THEN a ELSE b] : a \in Files1, b \in Files2} :
              D \in SUBSET Urls}

Document(version, triggers, machine, nodes) ==
    [syntax_ok |-> TRUE, version |-> version, triggers |-> triggers,
     has_chain |-> TRUE, has_children |-> TRUE, machine |-> machine, nodes |-> nodes]

WorkflowContext(source_file_path, trigger) ==
    [source_file_path |-> source_file_path, trigger |-> trigger]

Request(doc, fetcher, context) == [doc |-> doc, fetcher |-> fetcher, context |-> context]

\* Documents with a sound header, over every chain and fetcher
GraphRequests ==
    {Request(Document("0.1", <<"push">>, "m", nodes), fetcher,
             WorkflowContext(source, trigger)) :
        nodes \in Chains, fetcher \in Fetchers,
        source \in {None, "u1"}, trigger \in {None, "Push"}}

\* One plain chain under every header and context
HeaderRequests ==
    {Request([syntax_ok |-> ok, version |-> version, triggers |-> triggers,
              has_chain |-> chain, has_children |-> children, machine |-> machine,
              nodes |-> <<RunNode>>],
             <<>>, WorkflowContext(None, trigger)) :
        ok \in BOOLEAN, version \in {None, "0.1", "0.2"},
        triggers \in {<<>>, <<"push">>, <<"push", "tag">>, <<"schedule">>, <<"Push">>},
        chain \in BOOLEAN, children \in BOOLEAN, machine \in {None, "m"},
        trigger \in {None, "Push", "Tag", "PullRequest", "Manual"}}

InitCompiler ==
    /\ OrchestratorAtRest
    /\ ctl = NoController
    /\ deploy = NoDeployment
    /\ wp = NoWorkerProcess
    /\ cmp \in {[pc |-> "request", input |-> i, entry |-> None, result |-> NoWorkflow(None),
                 chains |-> <<>>, fragments |-> <<>>] :
                   i \in GraphRequests \cup HeaderRequests}

\* A caller runs ChainParserService::parse on the request.
Parse ==
    /\ cmp.pc = "request"
    /\ cmp' = [cmp EXCEPT !.pc = "done", !.entry = "parse",
                          !.result = service_parse(cmp.input.doc, cmp.input.context,
                                                   cmp.input.fetcher)]
    /\ UNCHANGED <<ctl, deploy, wp, orchVars>>

\* A caller runs ChainParserService::parse_without_trigger_validation on it.
ParseWithoutTriggerValidation ==
    /\ cmp.pc = "request"
    /\ cmp' = [cmp EXCEPT !.pc = "done", !.entry = "parse_without_trigger_validation",
                          !.result = parse_without_trigger_validation(
                                         cmp.input.doc, cmp.input.context,
                                         cmp.input.fetcher)]
    /\ UNCHANGED <<ctl, deploy, wp, orchVars>>

\* The compilation is one the POST /parse handler makes: its fetcher is the
\* NoOpFetcher, for which every fetch fails, and it calls parse exactly when
\* the request names a trigger.
FromParseHandler(c) ==
    /\ DOMAIN c.input.fetcher = {}
    /\ c.entry = "parse" <=> c.input.context.trigger # None

\* PgChainRepository::create: the row the INSERT leaves in the chains table
create(new_chain) ==
    [status |-> new_chain.status, default_machine |-> new_chain.default_machine,
     source_file_path |-> new_chain.source_file_path, trigger |-> new_chain.trigger,
     started_at |-> FALSE, completed_at |-> FALSE]

\* The row the INSERT leaves for the NewFragment n: its columns as given, the
\* columns NewFragment lacks NULL.
inserted_row(n) ==
    [chain_id |-> "c1", parent_fragment_id |-> n.parent_fragment_id,
     sequence |-> n.sequence, fragment_type |-> n.fragment_type,
     run_script |-> n.run_script, condition |-> n.condition,
     machine |-> n.machine, is_parallel |-> n.is_parallel,
     source_url |-> n.source_url, status |-> n.status, attempt |-> n.attempt,
     assigned_worker_id |-> None, started_at |-> FALSE, completed_at |-> FALSE,
     exit_code |-> NoCode, error_message |-> None]

\* PgFragmentRepository::create_many: the rows of the fragments table, by id
create_many(new_fragments) ==
    [id \in {new_fragments[i].id : i \in DOMAIN new_fragments} |->
        LET n == CHOOSE x \in {new_fragments[i] : i \in DOMAIN new_fragments} : x.id = id
        IN  inserted_row(n)]

\* POST /parse, after the compilation succeeded: chain_repo.create(parsed.chain)
ParseStoreChain ==
    /\ cmp.pc = "done"
    /\ cmp.result.err = None
    /\ FromParseHandler(cmp)
    /\ \/ cmp' = [cmp EXCEPT !.pc = "chain_stored", !.chains = <<create(cmp.result.chain)>>]
       \/ cmp' = [cmp EXCEPT !.pc = "failed"]
    /\ UNCHANGED <<ctl, deploy, wp, orchVars>>

\* POST /parse: fragment_repo.create_many(parsed.fragments), then the answer;
\* when the INSERT fails, `?` answers the error and the handler does no more.
ParseStoreFragments ==
    /\ cmp.pc = "chain_stored"
    /\ \/ cmp' = [cmp EXCEPT !.pc = "stored", !.fragments = create_many(cmp.result.fragments)]
       \/ cmp' = [cmp EXCEPT !.pc = "failed"]
    /\ UNCHANGED <<ctl, deploy, wp, orchVars>>

NextCompiler ==
    \/ Parse
    \/ ParseWithoutTriggerValidation
    \/ ParseStoreChain
    \/ ParseStoreFragments

SpecCompiler == InitCompiler /\ [][NextCompiler]_vars

----------------------------------------------------------------------------
Terminal == {"Completed", "Failed"}

\* No handler and no monitor scan is in progress.
Quiescent == mon.pc = "idle" /\ \A w \in DOMAIN h : h[w].pc = "idle"

\* Worker w's /work/request call takes a step.
RwStep(w) ==
    /\ h'[w] # h[w]
    /\ (h[w].pc \in {"rw_check", "rw_claim"} \/ h'[w].pc = "rw_check")

\* C1: a fragment waiting in Pending for its n-th attempt is returned as the
\* payload of /work/request calls of at most one worker; every other call
\* gets another fragment or nothing.
C1_OneCallPerPendingFragment ==
    \A r1, r2 \in returned :
        (r1.fragment = r2.fragment /\ r1.attempt = r2.attempt) => r1.worker = r2.worker

\* Two calls contend for one fragment: one has claimed it, the other has it
\* as its candidate and is about to try.
C1_Witness ==
    \E w1, w2 \in Workers :
        /\ w1 # w2
        /\ h[w1].pc = "rw_assign"
        /\ h[w2].pc = "rw_claim"
        /\ h[w2].fragment = h[w1].fragment

\* C2: when find_and_claim_work(w) returns a fragment, the fragment was
\* Pending right before the claim step and is Running and assigned to w right
\* after it; a step of a call that returns no fragment changes no fragment.
C2_ClaimContract ==
    [][\A w \in Workers :
          RwStep(w) =>
             IF h'[w].pc = "rw_assign"
             THEN LET f == h'[w].fragment
                  IN  /\ fragments[f].status = "Pending"
                      /\ fragments'[f].status = "Running"
                      /\ fragments'[f].assigned_worker_id = w
                      /\ \A g \in FragIds \ {f} : fragments'[g] = fragments[g]
             ELSE fragments' = fragments]_vars

\* A call has claimed a fragment and holds it as its result.
C2_Witness ==
    \E w \in Workers :
        /\ h[w].pc = "rw_assign"
        /\ fragments[h[w].fragment].status = "Running"
        /\ fragments[h[w].fragment].assigned_worker_id = w

\* The root-level siblings that precede fragment f in its chain.
EarlierSiblings(f) ==
    {g \in find_siblings(fragments, fragments[f].chain_id, fragments[f].parent_fragment_id) :
        fragments[g].sequence < fragments[f].sequence}

\* C3: a root-level fragment goes from Pending to Running only in a state in
\* which every sibling with a smaller sequence is Completed or Failed.
C3_ClaimedInSequenceOrder ==
    [][\A f \in FragIds :
          (/\ fragments[f].parent_fragment_id = None
           /\ fragments[f].status = "Pending"
           /\ fragments'[f].status = "Running")
          => \A g \in EarlierSiblings(f) : fragments[g].status \in Terminal]_vars

\* C4: once every fragment of a chain is terminal, the handlers and the
\* monitor have finished their work and no worker still owes a report for the
\* chain, the chain is Completed or Failed.
C4_ChainRolledUp ==
    \A c \in ChainIds :
        (/\ Quiescent
         /\ find_by_chain(fragments, c) # {}
         /\ all_complete(fragments, c)
         /\ \A w \in Workers : \A f \in handed[w] : fragments[f].chain_id # c)
        => chains[c].status \in Terminal

\* C5: a chain whose status is Completed or Failed keeps that status.
C5_ChainTerminalOnce ==
    [][\A c \in ChainIds :
          chains[c].status \in Terminal => chains'[c].status = chains[c].status]_vars

\* C6: a fragment that is Completed or Failed never becomes Pending or
\* Running again.
C6_TerminalNeverReassigned ==
    [][\A f \in FragIds :
          fragments[f].status \in Terminal
          => fragments'[f].status \notin {"Pending", "Running"}]_vars

\* The workers whose current_fragment is f.
Holders(f) == {w \in Workers : workers[w].current_fragment_id = f}

\* C7: every Running fragment is the current_fragment of exactly one worker.
C7_RunningHasOneHolder ==
    \A f \in FragIds :
        fragments[f].status = "Running" => Cardinality(Holders(f)) = 1

\* C8: a fragment has an assigned worker exactly when it is Running.
C8_AssignedIffRunning ==
    \A f \in FragIds :
        fragments[f].assigned_worker_id # None <=> fragments[f].status = "Running"

\* C9: a worker's current_fragment, when set, names a fragment whose
\* assigned worker is that worker.
C9_CurrentFragmentBackPointer ==
    \A w \in Workers :
        workers[w].current_fragment_id # None
        => fragments[workers[w].current_fragment_id].assigned_worker_id = w

\* C10: a Running fragment held by a worker that has stopped for good
\* eventually leaves Running.
C10_DeadWorkerFragmentLeavesRunning ==
    \A w \in Workers, f \in FragIds :
        (/\ ~alive[w]
         /\ workers[w].current_fragment_id = f
         /\ fragments[f].status = "Running")
        ~> (fragments[f].status # "Running")

\* C11: on a chain of one parallel group with three inline children whose
\* machine every worker matches, four answered work requests have handed out
\* exactly the three inline children, each once, and nothing else.
C11_ThreeChildrenThenNoWork ==
    (/\ \A f \in {"k1", "k2", "k3"} : fragments[f].machine = "a"
     /\ \A w \in GroupWorkers : workers[w].machine_group \in {None, "a"}
     /\ Quiescent
     /\ calls = Cardinality(GroupWorkers))
    => /\ {r.fragment : r \in returned} = {"k1", "k2", "k3"}
       /\ Cardinality(returned) = 3

\* C12: a worker whose machine_group is a value g is only ever handed
\* fragments whose machine is g; the list a worker without a machine_group
\* gets holds every Pending fragment, whatever its machine.
C12_MachineGroupMatch ==
    /\ [](\A r \in returned :
            workers[r.worker].machine_group # None
                => fragments[r.fragment].machine = workers[r.worker].machine_group)
    /\ [][\A w \in GroupWorkers :
            (RequestWork(w) /\ workers[w].machine_group = None)
                => {h'[w].pending[i] : i \in DOMAIN h'[w].pending}
                       = {f \in DOMAIN fragments : fragments[f].status = "Pending"}]_vars

\* A worker of group "a" has been handed a fragment, and another such worker
\* holds a non-empty candidate list while a fragment for machine "b" waits
\* in Pending; a worker without a group has been handed a fragment too.
C12_Witness ==
    /\ fragments["k3"].machine = "b"
    /\ fragments["k3"].status = "Pending"
    /\ \E w \in GroupWorkers :
          /\ workers[w].machine_group = "a"
          /\ h[w].pc = "rw_check"
          /\ h[w].pending # <<>>
    /\ \E r \in returned : workers[r.worker].machine_group = "a"
    /\ \E r \in returned : workers[r.worker].machine_group = None

\* What is left of a call's loop: two per candidate not yet looked at, one
\* for a candidate whose claim is about to be tried.
LoopMeasure(x) == 2 * Len(x.pending) + (IF x.pc = "rw_claim" THEN 1 ELSE 0)

\* C13: a /work/request call that answers "no work" owes nothing: every
\* fragment that was listed and eligible when the call began has been claimed
\* by another request meanwhile.
C13_EligibleIsReturned ==
    \A w \in DOMAIN h :
        (h[w].pc = "rw_check" /\ h[w].pending = <<>>) => owed[w] = {}

\* The other half of C13: every step of the call's loop consumes a candidate
\* of the list or tries the claim of the candidate just consumed.
C13_LoopTerminates ==
    [][\A w \in DOMAIN h :
          (h[w].pc \in {"rw_check", "rw_claim"} /\ h'[w] # h[w] /\ h'[w].pc # "idle")
              => LoopMeasure(h'[w]) < LoopMeasure(h[w])]_vars

IsClampedCeil(r, p, t, lo, hi) ==
    /\ lo <= r /\ r <= hi
    /\ r > lo => p > ((r - 1) * t.num) \div t.den
    /\ r < hi => p <= (r * t.num) \div t.den

\* The tick has computed a desired replica count.
Calculated == ctl.metrics # <<>> /\ ctl.pc \in {"scale", "record", "sleep"}

\* C15: for every configuration and every pending count,
\* calculate_desired_replicas returns a value, the value lies in
\* [min_replicas, max_replicas], it is min_replicas when the target is <= 0
\* and clamp(ceil(pending / target), min_replicas, max_replicas) otherwise.
C15_DesiredWithinRange ==
    /\ ctl.pc # "panicked"
    /\ Calculated =>
          LET c == ctl.config
              t == c.target_pending_per_worker
          IN  /\ c.min_replicas <= ctl.desired
              /\ ctl.desired <= c.max_replicas
              /\ le_zero(t) => ctl.desired = c.min_replicas
              /\ (t.kind = "finite" /\ ~le_zero(t))
                    => IsClampedCeil(ctl.desired, ctl.metrics[1], t,
                                     c.min_replicas, c.max_replicas)

\* What holds of C15: the same, for a configuration with
\* min_replicas <= max_replicas.
C15_WithinRangeWhenOrdered ==
    ctl.config.min_replicas <= ctl.config.max_replicas => C15_DesiredWithinRange

\* C16: a worker that leaves the work loop on the shutdown signal has let the
\* execution it was in finish and has reported its result: it holds no
\* fragment when it leaves.
C16_ShutdownFinishesExecution ==
    wp.pc = "stopped" => wp.abandoned = {}

\* C17: the result of an executed fragment is not dropped: the worker asks
\* for new work only when no result is waiting to be posted, a failed post
\* being tried again first.
C17_ResultIsNotDropped ==
    wp.pc = "request" => wp.unreported = {}

\* The nodes of a node list, at any depth.
RECURSIVE NodesOf(_)
NodesOf(nodes) ==
    UNION {{nodes[i]} \cup NodesOf(nodes[i].children) : i \in DOMAIN nodes}

IsImport(n) == n.name = "fragment" /\ n.from # None /\ n.run = None

\* The URLs a node list imports, one entry per import, in document order.
RECURSIVE ImportList(_)
ImportList(nodes) ==
    IF nodes = <<>> THEN <<>>
    ELSE (IF IsImport(Head(nodes)) THEN <<Head(nodes).from>> ELSE <<>>)
             \o ImportList(Head(nodes).children) \o ImportList(Tail(nodes))

ImportsOf(nodes) == {n.from : n \in {m \in NodesOf(nodes) : IsImport(m)}}

\* The URLs reachable from the URLs S through the imports of the files.
RECURSIVE ImportClosure(_, _)
ImportClosure(S, fetcher) ==
    LET N == S \cup UNION {ImportsOf(fetcher[u]) : u \in S \cap DOMAIN fetcher}
    IN  IF N = S THEN S ELSE ImportClosure(N, fetcher)

Reachable(input) == ImportClosure(ImportsOf(input.doc.nodes), input.fetcher)

ReachableNodes(input) ==
    NodesOf(input.doc.nodes)
        \cup UNION {NodesOf(input.fetcher[u]) : u \in Reachable(input) \cap DOMAIN input.fetcher}

\* A reachable file imports itself, directly or through other files, or the
\* workflow's own source path is imported.
HasCycle(input) ==
    \/ \E u \in Reachable(input) \cap DOMAIN input.fetcher :
          u \in ImportClosure(ImportsOf(input.fetcher[u]), input.fetcher)
    \/ /\ input.context.source_file_path # None
       /\ input.context.source_file_path \in Reachable(input)

\* Every URL is imported at most once in the workflow and all the files, and
\* the workflow's own source path is not imported.
ImportTree(input) ==
    LET all == ImportList(input.doc.nodes) \o ImportList(
                   IF "u1" \in DOMAIN input.fetcher THEN input.fetcher["u1"] ELSE <<>>)
                 \o ImportList(
                   IF "u2" \in DOMAIN input.fetcher THEN input.fetcher["u2"] ELSE <<>>)
    IN  /\ \A i, j \in DOMAIN all : all[i] = all[j] => i = j
        /\ \A i \in DOMAIN all : all[i] # input.context.source_file_path

HeaderValid(doc) ==
    /\ doc.syntax_ok /\ doc.version = "0.1" /\ doc.triggers # <<>>
    /\ doc.has_chain /\ doc.has_children /\ doc.machine # None

KnownName(n) == n.name \in {"fragment", "parallel"}

ExactlyOne(n) == n.name = "fragment" => (n.from = None) # (n.run = None)

\* The context's trigger, if any, does not stop the entry point used.
TriggerPasses(c) ==
    \/ c.entry = "parse_without_trigger_validation"
    \/ c.input.context.trigger = None
    \/ \E i \in DOMAIN c.input.doc.triggers :
          c.input.doc.triggers[i] = trigger_type_to_str(c.input.context.trigger)

\* Nothing but the shape of the import graph can make the compilation fail.
ValidApartFromImports(c) ==
    /\ HeaderValid(c.input.doc)
    /\ TriggerPasses(c)
    /\ \A n \in ReachableNodes(c.input) : KnownName(n) /\ ExactlyOne(n)
    /\ Reachable(c.input) \subseteq DOMAIN c.input.fetcher

\* An error, and with it neither a chain nor fragments
NothingToStore(result) ==
    result.err # None /\ result.chain = None /\ result.fragments = <<>>

\* C18: on documents that are sound apart from their imports, an import
\* graph with a cycle reachable from the workflow (the workflow's own source
\* path included) makes the compilation return CircularImport, with no chain
\* and no fragment to store.
C18_CycleIsCircularImport ==
    (cmp.pc = "done" /\ ValidApartFromImports(cmp) /\ HasCycle(cmp.input))
        => cmp.result.err = "CircularImport" /\ NothingToStore(cmp.result)

\* The workflow imports u1, u1 imports u2 and u2 imports u1 back.
C18_Witness ==
    /\ cmp.pc = "done"
    /\ ValidApartFromImports(cmp)
    /\ cmp.input.context.source_file_path = None
    /\ DOMAIN cmp.input.fetcher = Urls
    /\ "u1" \in ImportsOf(cmp.input.doc.nodes)
    /\ "u2" \notin ImportsOf(cmp.input.doc.nodes)
    /\ "u2" \in ImportsOf(cmp.input.fetcher["u1"])
    /\ "u1" \notin ImportsOf(cmp.input.fetcher["u1"])
    /\ "u1" \in ImportsOf(cmp.input.fetcher["u2"])
    /\ cmp.result.err = "CircularImport"

\* Nothing but a fragment node's own declaration can make the compilation
\* fail: the header is sound, every reachable node is a fragment or a group,
\* every reachable URL can be fetched and no URL is imported twice.
ValidApartFromDeclarations(c) ==
    /\ HeaderValid(c.input.doc)
    /\ \A n \in ReachableNodes(c.input) : KnownName(n)
    /\ Reachable(c.input) \subseteq DOMAIN c.input.fetcher
    /\ ImportTree(c.input)

BothDeclared(input) ==
    \E n \in ReachableNodes(input) : n.name = "fragment" /\ n.from # None /\ n.run # None

NeitherDeclared(input) ==
    \E n \in ReachableNodes(input) : n.name = "fragment" /\ n.from = None /\ n.run = None

\* C19: a compilation succeeds only if every fragment node reachable from the
\* workflow declares exactly one of run and from; on documents that are sound
\* apart from such declarations a node declaring both gives MutualExclusion
\* and a node declaring neither gives NoContent, at the root, inside a
\* parallel group or inside an imported document, and no chain is produced.
C19_ExactlyOneOfRunAndFrom ==
    cmp.pc = "done" =>
        /\ cmp.result.err = None =>
              ~BothDeclared(cmp.input) /\ ~NeitherDeclared(cmp.input)
        /\ (ValidApartFromDeclarations(cmp)
              /\ (BothDeclared(cmp.input) \/ NeitherDeclared(cmp.input))) =>
              /\ cmp.result.err \in {"MutualExclusion", "NoContent"}
              /\ NothingToStore(cmp.result)
              /\ ~NeitherDeclared(cmp.input) => cmp.result.err = "MutualExclusion"
              /\ ~BothDeclared(cmp.input) => cmp.result.err = "NoContent"

\* The node declaring both sits in a document imported from inside a group.
C19_Witness ==
    /\ cmp.pc = "done"
    /\ ValidApartFromDeclarations(cmp)
    /\ cmp.input.doc.nodes = <<ParallelNode(<<ImportNode("u2")>>)>>
    /\ cmp.input.fetcher["u2"] = <<BothNode>>
    /\ cmp.result.err = "MutualExclusion"
    /\ cmp.result.chain = None

\* The document compiles: nothing in its header, nodes or imports is wrong.
ValidDocument(input) ==
    /\ HeaderValid(input.doc)
    /\ \A n \in ReachableNodes(input) : KnownName(n) /\ ExactlyOne(n)
    /\ Reachable(input) \subseteq DOMAIN input.fetcher
    /\ ImportTree(input)

\* The document is valid but for its trigger list, which is missing or empty.
ValidButForTriggers(input) ==
    /\ input.doc.triggers = <<>>
    /\ ValidDocument([input EXCEPT !.doc.triggers = <<"push">>])

TriggerNamed(input) ==
    \E i \in DOMAIN input.doc.triggers :
        input.doc.triggers[i] = trigger_type_to_str(input.context.trigger)

\* C20: on a valid document, parse returns InvalidTrigger when the context's
\* trigger is not named in the document's list and succeeds when it is named
\* or when the context has no trigger; parse_without_trigger_validation
\* succeeds on it for any context trigger; both return
\* MissingRequired(triggers) when the document's trigger list is missing or
\* empty.
C20_TriggerFilter ==
    cmp.pc = "done" =>
        /\ (cmp.entry = "parse" /\ ValidDocument(cmp.input)) =>
              IF cmp.input.context.trigger # None /\ ~TriggerNamed(cmp.input)
              THEN cmp.result.err = "InvalidTrigger" /\ NothingToStore(cmp.result)
              ELSE /\ cmp.result.err = None
                   /\ cmp.result.chain.trigger = cmp.input.context.trigger
        /\ (cmp.entry = "parse_without_trigger_validation" /\ ValidDocument(cmp.input)) =>
              /\ cmp.result.err = None
              /\ cmp.result.chain.trigger = cmp.input.context.trigger
        /\ ValidButForTriggers(cmp.input) =>
              cmp.result.err = "MissingRequired(triggers)" /\ NothingToStore(cmp.result)
        /\ cmp.result.err = "InvalidTrigger" =>
              cmp.entry = "parse" /\ cmp.input.context.trigger # None
                  /\ ~TriggerNamed(cmp.input)

\* parse has refused a tag trigger on a document that lists only push.
C20_Witness ==
    /\ cmp.pc = "done"
    /\ cmp.entry = "parse"
    /\ ValidDocument(cmp.input)
    /\ cmp.input.doc.triggers = <<"push">>
    /\ cmp.input.context.trigger = "Tag"
    /\ cmp.result.err = "InvalidTrigger"

\* Worker w's call performs its try_claim on fragment f and the claim succeeds.
SuccessfulClaim(w, f) ==
    /\ h[w].pc = "rw_claim"
    /\ h[w].fragment = f
    /\ try_claim_matches(fragments, f)
    /\ fragments' = try_claim(fragments, f, w)

\* C21: a fragment that is Pending changes its status only in the step of a
\* successful try_claim on it; no result report and no step of the liveness
\* monitor changes the status of a Pending fragment.
C21_PendingLeftOnlyByClaim ==
    [][\A f \in DOMAIN fragments :
          (fragments[f].status = "Pending" /\ fragments'[f].status # "Pending")
          => \E w \in DOMAIN h : SuccessfulClaim(w, f)]_vars

\* The root-level rows that precede row p in its chain.
RootBefore(p) ==
    {g \in find_siblings(fragments, fragments[p].chain_id, None) :
        fragments[g].sequence < fragments[p].sequence}

\* The rows below the group row p.
ChildrenOf(p) == {c \in DOMAIN fragments : fragments[c].parent_fragment_id = p}

\* The fragments a /work/request call hands to its worker in this step.
HandedNow == {r.fragment : r \in returned' \ returned}

\* C22: a child of a parallel group is handed to a worker only when every
\* root-level row that precedes the group is terminal, and a root-level
\* fragment is handed to a worker only when every child of every parallel
\* group that precedes it is terminal.
C22_GroupKeepsItsPlace ==
    [][\A f \in HandedNow :
          LET p == fragments[f].parent_fragment_id
          IN  /\ (p # None /\ fragments[p].is_parallel) =>
                    \A g \in RootBefore(p) : is_terminal(fragments[g].status)
              /\ p = None =>
                    \A g \in RootBefore(f) :
                        fragments[g].is_parallel =>
                            \A c \in ChildrenOf(g) : is_terminal(fragments[c].status)]_vars

\* The work payloads that handed fragment f to a worker.
Executions(f) == {r \in returned : r.fragment = f}

\* The monitor decides on the fragment of the dead worker it is handling.
MonRetryStep == mon.pc = "mon_retry" /\ mon'.pc = "mon_clear"

ResetStep(f) ==
    /\ MonRetryStep
    /\ mon.row.current_fragment_id = f
    /\ fragments[f].attempt < max_retry_attempts

\* C24: after reset_for_retry the fragment is Pending, has no assigned
\* worker, has started, completed, exit code and error message cleared and
\* its attempt raised by exactly one; its chain, parent, sequence, type,
\* script, condition, machine and parallel flag are as before, and so is every other fragment.
C24_ResetForRetry ==
    [][\A f \in DOMAIN fragments :
          ResetStep(f) =>
             /\ fragments'[f].status = "Pending"
             /\ fragments'[f].assigned_worker_id = None
             /\ fragments'[f].started_at = FALSE
             /\ fragments'[f].completed_at = FALSE
             /\ fragments'[f].exit_code = NoCode
             /\ fragments'[f].error_message = None
             /\ fragments'[f].attempt = fragments[f].attempt + 1
             /\ fragments'[f].chain_id = fragments[f].chain_id
             /\ fragments'[f].parent_fragment_id = fragments[f].parent_fragment_id
             /\ fragments'[f].sequence = fragments[f].sequence
             /\ fragments'[f].fragment_type = fragments[f].fragment_type
             /\ fragments'[f].run_script = fragments[f].run_script
             /\ fragments'[f].condition = fragments[f].condition
             /\ fragments'[f].machine = fragments[f].machine
             /\ fragments'[f].is_parallel = fragments[f].is_parallel
             /\ \A g \in DOMAIN fragments \ {f} : fragments'[g] = fragments[g]]_vars

\* The monitor has just reset a fragment that was assigned to the dead worker.
C24_Witness ==
    /\ mon.pc = "mon_clear"
    /\ LET f == mon.row.current_fragment_id
       IN  /\ fragments[f].status = "Pending"
           /\ fragments[f].attempt = 2
           /\ fragments[f].assigned_worker_id = None
           /\ ~fragments[f].started_at
           /\ workers[mon.worker].current_fragment_id = f

\* A fragment of chain c has been handed to a worker.
ChainBegun(c) == \E r \in returned : fragments[r.fragment].chain_id = c

\* C25: a chain of which a fragment has been handed to a worker has its
\* started timestamp set, a chain that is Completed or Failed has it set, and
\* completed is set exactly when the chain is Completed or Failed.
C25_ChainTimestamps ==
    \A c \in ChainIds :
        /\ ChainBegun(c) => chains[c].started_at
        /\ chains[c].status \in Terminal => chains[c].started_at
        /\ chains[c].completed_at <=> chains[c].status \in Terminal

\* The rows of the stored chain that come first: root level, sequence 0.
FirstFragments(rows) ==
    {f \in DOMAIN rows : rows[f].parent_fragment_id = NoId /\ rows[f].sequence = 0}

\* C26: every fragment row that POST /parse has stored is Pending with
\* attempt 1, and the chain's first fragment is among the rows
\* find_pending_by_machine lists for a worker of its machine group and for a
\* worker without one.
C26_StoredFragmentsClaimable ==
    cmp.pc = "stored" =>
        /\ \A f \in DOMAIN cmp.fragments :
              cmp.fragments[f].status = "Pending" /\ cmp.fragments[f].attempt = 1
        /\ \A f \in FirstFragments(cmp.fragments) :
              /\ f \in PendingSet(cmp.fragments, None)
              /\ f \in PendingSet(cmp.fragments, cmp.fragments[f].machine)

\* C27: a worker's stored last_heartbeat never moves back: the age of the
\* stored heartbeat grows only by the passage of time, never by a statement
\* of a handler or of the liveness monitor.
C27_HeartbeatMonotonic ==
    [][\A w \in DOMAIN workers :
          workers'[w].last_heartbeat_age > workers[w].last_heartbeat_age => Tick]_vars

\* At least `delay` seconds have elapsed since the recorded scale-down.
DelayElapsed(state) == state.last_scale_down[1] >= state.delay

\* C28: should_scale(desired, delay) returns no action when desired equals
\* the current replica count, desired when desired is greater, and when
\* desired is less it returns desired if no scale-down has been recorded or
\* at least delay seconds have elapsed since the last one, and no action
\* otherwise.
C28_ShouldScale ==
    ctl.pc = "scaled" =>
        /\ ctl.desired = ctl.current_replicas => ctl.action = <<>>
        /\ ctl.desired > ctl.current_replicas => ctl.action = <<ctl.desired>>
        /\ ctl.desired < ctl.current_replicas =>
              IF ctl.last_scale_down = NoInstant \/ DelayElapsed(ctl)
              THEN ctl.action = <<ctl.desired>>
              ELSE ctl.action = <<>>

\* The recorded scale-down of s is the one of r, or that one grown older.
NoNewScaleDown(r, s) ==
    IF r.last_scale_down = NoInstant
    THEN s.last_scale_down = NoInstant
    ELSE s.last_scale_down # NoInstant /\ s.last_scale_down[1] >= r.last_scale_down[1]

\* C29: a tick in which the metrics fetch, the replica read or the patch
\* failed records no scale-down and patches nothing more, and the loop goes
\* on: the failing step leaves the deployment and the scale-down record as
\* they were and takes the loop to its wait, where the next tick can start
\* unless a shutdown was signalled; the controller stops there only on a
\* shutdown.
C29_FailedTickSkipped ==
    /\ [](ctl.error # NoError =>
            /\ ctl.pc \in {"sleep", "stopped"}
            /\ ctl.pc = "sleep" /\ ~ctl.permit => ENABLED CtlSleep)
    /\ [][/\ (ctl.error = NoError /\ ctl'.error # NoError) =>
                /\ deploy' = deploy
                /\ ctl'.last_scale_down = ctl.last_scale_down
                /\ ctl'.current_replicas = ctl.current_replicas
                /\ ctl'.pc = "sleep"
          /\ ctl.error # NoError =>
                /\ deploy'.replicas = deploy.replicas
                /\ NoNewScaleDown(ctl, ctl')
                /\ ctl'.pc = "stopped" => ctl.permit
                /\ ctl'.pc \in {"sleep", "stopped"} \/ (ctl'.pc = "tick" /\ ctl'.error = NoError)]_vars

\* The patch of a scale-down failed: the tick is over, nothing is recorded.
C29_Witness ==
    /\ ctl.error = "scale"
    /\ ctl.pc = "sleep"
    /\ ctl.new_replicas < ctl.read
    /\ deploy.replicas = ctl.read
    /\ ctl.last_scale_down = NoInstant

\* The controller is inside Controller::reconcile.
Reconciling(state) == state.pc \in {"tick", "scale", "record"}

\* C30: a shutdown notification that finds the controller in its wait ends
\* the loop at once, with no poll interval passing; one that arrives during
\* a reconciliation is kept until the wait: the reconciliation goes on to
\* its end, the loop then stops and no further reconciliation starts.
C30_ShutdownNotLost ==
    /\ [](ctl.pc = "sleep" /\ ctl.permit => ENABLED CtlStop)
    /\ [][/\ (ctl.pc = "sleep" /\ ctl.permit) =>
                /\ ctl'.pc = "stopped"
                /\ ctl'.last_scale_down = ctl.last_scale_down
                /\ deploy' = deploy
          /\ (Reconciling(ctl) /\ ctl.permit) =>
                /\ ctl'.permit
                /\ ctl'.pc # "stopped"
          /\ (ctl.signalled /\ ctl.pc # "tick") => ctl'.pc # "tick"
          /\ ctl.pc = "stopped" => ctl'.pc = "stopped"]_vars
    /\ (ctl.signalled ~> ctl.pc \in {"stopped", "panicked"})

\* The notification arrived during a reconciliation that went on to patch
\* the deployment; the loop stopped after it.
C30_Witness ==
    /\ ctl.pc = "stopped"
    /\ ctl.signalled
    /\ ~ctl.permit
    /\ ctl.metrics # <<>>
    /\ ctl.new_replicas # ctl.read
    /\ deploy.replicas = ctl.new_replicas

\* The number of fragments the nodes stand for once every import is replaced
\* by the nodes of the document it names (defined when no import cycle is
\* reachable and every URL can be fetched).
RECURSIVE EmittedBy(_, _)
EmittedBy(nodes, fetcher) ==
    IF nodes = <<>> THEN 0
    ELSE LET n == Head(nodes)
         IN  (IF IsImport(n) THEN EmittedBy(fetcher[n.from], fetcher)
              ELSE IF n.name = "parallel" THEN 1 + EmittedBy(n.children, fetcher)
              ELSE 1)
                 + EmittedBy(Tail(nodes), fetcher)

\* Some URL is imported at two positions of the workflow and its files.
ImportedTwice(input) == ~ImportTree([input EXCEPT !.context.source_file_path = None])

\* C31: only the URLs on the current import stack count as visited, so a
\* workflow that is sound apart from its imports and has no import cycle
\* compiles, also when it imports one URL at two positions, and the
\* imported fragments are emitted at every position.
C31_RepeatedImportCompiles ==
    (cmp.pc = "done" /\ ValidApartFromImports(cmp) /\ ~HasCycle(cmp.input))
        => /\ cmp.result.err = None
           /\ Len(cmp.result.fragments) = EmittedBy(cmp.input.doc.nodes, cmp.input.fetcher)

\* For each fragment the nodes stand for, in emission order, the position of
\* its enclosing group in the whole list, 0 at root level; `parent` is the
\* position of the group the nodes sit in and `base` the number of fragments
\* emitted before them.
RECURSIVE EnclosingGroups(_, _, _, _)
EnclosingGroups(nodes, fetcher, parent, base) ==
    IF nodes = <<>> THEN <<>>
    ELSE LET n == Head(nodes)
             first == IF IsImport(n)
                      THEN EnclosingGroups(fetcher[n.from], fetcher, parent, base)
                      ELSE IF n.name = "parallel"
                      THEN <<parent>> \o EnclosingGroups(n.children, fetcher, base + 1, base + 1)
                      ELSE <<parent>>
         IN  first \o EnclosingGroups(Tail(nodes), fetcher, parent, base + Len(first))

\* The number of fragments before position i that have the parent of the i-th.
RankAmongSiblings(frags, i) ==
    Cardinality({j \in 1..(i - 1) : frags[j].parent_fragment_id = frags[i].parent_fragment_id})

\* C32: in every compiler output the fragments of one parent carry the
\* sequences 0, 1, 2, ... in emission order, at root level across the whole
\* root level and within each group for its children, imported fragments
\* included; every fragment's parent is its enclosing group, which is a
\* Group fragment emitted before it, and root-level fragments have no parent.
C32_SiblingSequences ==
    (cmp.pc = "done" /\ cmp.result.err = None) =>
        LET frags == cmp.result.fragments
            encl == EnclosingGroups(cmp.input.doc.nodes, cmp.input.fetcher, 0, 0)
        IN  /\ Len(encl) = Len(frags)
            /\ \A i \in DOMAIN frags :
                  /\ frags[i].sequence = RankAmongSiblings(frags, i)
                  /\ frags[i].parent_fragment_id =
                        (IF encl[i] = 0 THEN NoId ELSE SomeId(frags[encl[i]].id))
                  /\ encl[i] # 0 => encl[i] < i /\ frags[encl[i]].fragment_type = "Group"
            /\ \A i, j \in DOMAIN frags : frags[i].id = frags[j].id => i = j

\* A group holds a fragment of its own and an import whose document brings a
\* nested group and another fragment: the group's children are numbered
\* 0, 1, 2 and the nested group's child 0.
C32_Witness ==
    /\ cmp.pc = "done"
    /\ cmp.result.err = None
    /\ cmp.input.doc.nodes = <<RunNode, ParallelNode(<<RunNode, ImportNode("u1")>>)>>
    /\ cmp.input.fetcher["u1"] = <<ParallelNode(<<RunNode>>), RunNode>>
    /\ Len(cmp.result.fragments) = 6
    /\ cmp.result.fragments[6].sequence = 2
    /\ cmp.result.fragments[5].sequence = 0
    /\ cmp.result.fragments[5].parent_fragment_id = SomeId(cmp.result.fragments[4].id)

\* For each fragment the nodes stand for, in emission order, the URL of the
\* document that holds its node; `source` is that of the nodes themselves,
\* None for the workflow document.
RECURSIVE DefiningDocuments(_, _, _)
DefiningDocuments(nodes, fetcher, source) ==
    IF nodes = <<>> THEN <<>>
    ELSE LET n == Head(nodes)
         IN  (IF IsImport(n) THEN DefiningDocuments(fetcher[n.from], fetcher, n.from)
              ELSE IF n.name = "parallel"
              THEN <<source>> \o DefiningDocuments(n.children, fetcher, source)
              ELSE <<source>>)
                 \o DefiningDocuments(Tail(nodes), fetcher, source)

\* C33: every fragment of a compiler output that comes from an import has as
\* source_url the URL of the innermost imported document that holds its
\* node, and every fragment written in the workflow document itself has no
\* source_url, whatever the workflow's own source path.
C33_SourceUrlIsInnermost ==
    (cmp.pc = "done" /\ cmp.result.err = None) =>
        LET frags == cmp.result.fragments
            docs == DefiningDocuments(cmp.input.doc.nodes, cmp.input.fetcher, None)
        IN  /\ Len(docs) = Len(frags)
            /\ \A i \in DOMAIN frags : frags[i].source_url = docs[i]

\* The workflow has a fragment of its own and imports u1, which imports u2
\* and then has a fragment of its own.
C33_Witness ==
    /\ cmp.pc = "done"
    /\ cmp.result.err = None
    /\ cmp.input.context.source_file_path = None
    /\ cmp.input.doc.nodes = <<RunNode, ImportNode("u1")>>
    /\ cmp.input.fetcher["u1"] = <<ImportNode("u2"), RunNode>>
    /\ Len(cmp.result.fragments) = 3
    /\ cmp.result.fragments[1].source_url = None
    /\ cmp.result.fragments[2].source_url = "u2"
    /\ cmp.result.fragments[3].source_url = "u1"

\* Worker w's report named a fragment that does not exist and was answered.
UnknownReportAnswered(w) ==
    /\ h[w].pc = "idle"
    /\ h[w].fragment = UnknownFragment
    /\ h[w].response # <<>>

\* C34: a report that names a fragment id no row has is answered with 404.
C34_UnknownFragmentIs404 ==
    \A w \in DOMAIN h : UnknownReportAnswered(w) => h[w].response = <<NOT_FOUND>>

\* Such a report leaves every worker, fragment and chain row as it was.
C34_UnknownReportChangesNothing ==
    [][\A w \in DOMAIN h :
          (h[w].pc = "rr_update" /\ h[w].fragment \notin DOMAIN fragments /\ h'[w] # h[w])
              => /\ fragments' = fragments
                 /\ workers' = workers
                 /\ chains' = chains
                 /\ h'[w].pc = "idle"]_vars

\* C35: with workers of matching machine groups that keep asking for work,
\* scripts that all exit 0 and no worker dying, the chain with a parallel
\* group reaches Completed and no fragment, the Group fragment included, is
\* ever marked Failed.
C35_ChainCompletes ==
    (\A w \in DOMAIN workers : workers[w].machine_group = "a")
        => /\ <>(chains["c1"].status = "Completed")
           /\ [](\A f \in DOMAIN fragments : fragments[f].status # "Failed")

\* Both workers are in machine group a, every fragment with a script has
\* completed, and the Group fragment is Pending for ever.
C35_GroupNeverTerminal ==
    (\A w \in DOMAIN workers : workers[w].machine_group = "a")
        => [](~is_terminal(fragments["tests"].status))

\* Worker w's report handler writes the result of the fragment it names.
ReportWrites(w) == h[w].pc = "rr_update" /\ h'[w].pc = "rr_clear"

\* C36: a result report changes a fragment only when the fragment is Running
\* and assigned to the reporting worker; a late or duplicate report changes
\* no fragment, and no report changes another worker's assignment.
C36_ReportOnlyByHolder ==
    [][\A w \in DOMAIN h :
          /\ (ReportWrites(w) /\ fragments' # fragments) =>
                /\ fragments[h[w].fragment].status = "Running"
                /\ fragments[h[w].fragment].assigned_worker_id = w
          /\ (h[w].pc = "rr_clear" /\ h'[w].pc = "rr_rollup") =>
                \A v \in DOMAIN workers \ {w} : workers'[v] = workers[v]]_vars

\* The fragments handed out by the step, with the worker they were handed to.
HandedTo(w) == {r \in returned' \ returned : r.worker = w}

\* C37: /work/request hands a fragment only to a worker whose status is
\* Active, so that every Running fragment is held by a worker the liveness
\* monitor still watches.
C37_OnlyActiveWorkersGetWork ==
    [][\A w \in DOMAIN workers : HandedTo(w) # {} => workers[w].status = "Active"]_vars

\* Worker::tenant_id and Chain::tenant_id are set when the row is created
\* and never written again: w1 registered for tenant A, w2 for tenant B;
\* chain c1 was parsed for tenant A, chain c2 for tenant B.
worker_tenant_id(w) == IF w = "w1" THEN "A" ELSE "B"

chain_tenant_id(c) == IF c = "c1" THEN "A" ELSE "B"

\* C38: a worker is only ever handed fragments of chains of its own tenant.
C38_TenantIsolation ==
    \A r \in returned :
        chain_tenant_id(fragments[r.fragment].chain_id) = worker_tenant_id(r.worker)

\* C39: after the shutdown signal is raised, the work loop and the heartbeat
\* task both eventually stop, whatever each was doing at that instant.
C39_ShutdownSignalNotLost ==
    wp.signalled ~> (wp.pc = "stopped" /\ wp.hb = "stopped")

\* The POST /parse request was answered with an error.
ParseRequestFailed ==
    \/ cmp.pc = "failed"
    \/ cmp.pc = "done" /\ FromParseHandler(cmp) /\ cmp.result.err # None

\* C40: POST /parse stores the chain together with all of its fragments or
\* nothing: when the request fails, no chain row and no fragment row of the
\* request remains in the store.
C40_ParseStoresAllOrNothing ==
    ParseRequestFailed => (cmp.chains = <<>> /\ cmp.fragments = <<>>)

====
